---- MODULE Spec2Model ----
(***************************************************************************)
(* Virtual-therapy chat application: the Express/Drizzle persistence layer *)
(* (sessions, messages, settings), the AI response service with its canned *)
(* fallback tables, and the TherapyChat conversation component.            *)
(*                                                                         *)
(* Tables are sets of rows (a relation has no order of its own).  Times    *)
(* are small naturals.  Two clocks exist in the program: the database's    *)
(* (defaultNow() columns) and the application server's (new Date()).       *)
(***************************************************************************)
EXTENDS Naturals, Integers, Sequences, FiniteSets, TLC

VARIABLES
    users,             \* table users
    therapySessions,   \* table therapy_sessions
    therapyMessages,   \* table therapy_messages
    userSettings,      \* table user_settings
    userIdSeq,         \* serial of users.id (last value handed out)
    sessionIdSeq,      \* serial of therapy_sessions.id
    messageIdSeq,      \* serial of therapy_messages.id
    settingsIdSeq,     \* serial of user_settings.id
    dbNow,             \* the database clock, read by defaultNow()
    appNow,            \* the application server clock, read by new Date()
    variant,           \* which of the two registerRoutes versions is running
    settingsPending,   \* GET /api/settings handlers suspended before their insert
    demoPending,       \* POST /api/demo/init handlers suspended between their inserts
    reqCount,          \* HTTP requests the server has accepted
    res,               \* the response sent last
    returned,          \* the rows createTherapyMessage has returned, per call
    therapyCall,       \* the response-generation call being served, with its inputs
    therapyResult,     \* what that call gave its caller, and the path it took
    messages,          \* TherapyChat: the conversation shown
    inputText,         \* TherapyChat: the text in the input box
    isTyping,          \* TherapyChat: a reply is being awaited
    characterMood,     \* TherapyChat: the mood the character shows
    isListening,       \* TherapyChat: the voice input is listening
    toast,             \* the title of the notification shown last
    settings,          \* useSettings: the settings the chat reads
    awaiting,          \* sendMessage calls suspended at await generateAIResponse
    transcriptTimers,  \* transcripts whose one-second auto-send timer is pending
    speakTimers,       \* replies whose half-second speak timer is pending
    clientNow,         \* the browser's clock, read by Date.now() and new Date()
    speaking,          \* speechSynthesis.speaking: an utterance is being spoken
    utteranceRef,      \* utteranceRef.current: the text of the utterance started last
    renderedIsSpeaking, \* isSpeaking as the last render of TherapyChat read it
    ttsCalls,          \* speak calls suspended at await apiService.textToSpeech
    audioPlaying,      \* Audio elements playing a reply synthesized by the backend
    startSpeechTimers, \* replies whose 100 ms startSpeech timer is pending
    audioData,         \* useAudioVisualization: the audio data shown
    isEnabled,         \* useAudioVisualization: the visualization is running
    processors,        \* the AudioStreamProcessor objects created, by identity
    processorRef,      \* useAudioVisualization: processorRef.current
    startCalls,        \* startAudioVisualization calls suspended at getUserMedia
    voiceIsListening,  \* EnhancedVoiceInput: isListening
    startingRecorder,  \* startRecording calls suspended at await getUserMedia
    recorder,          \* BackendSpeechRecognition: the state of this.recorder
    transcribing,      \* processAudio calls suspended at await transcribeAudio
    localStorage,      \* the item stored under 'therapy-settings'
    pendingSettings,   \* useSettings: the value setLocalSettings holds for the next render
    interviewMessages, \* PsychologyInterview: messages
    interviewState,    \* PsychologyInterview: sessionId, questionCount, isComplete
    isLoading,         \* PsychologyInterview: a start or continue request is awaited
    interviewInputText,\* PsychologyInterview: the text in the answer box
    interviewCalls,    \* startInterview and continueInterview calls suspended at fetch
    reportCalls,       \* generateReport calls suspended at fetch, by session id
    reportContent      \* PsychologyInterview: the report shown, by session id

storeVars == <<users, therapySessions, therapyMessages, userSettings, userIdSeq,
               sessionIdSeq, messageIdSeq, settingsIdSeq, dbNow, appNow, variant,
               settingsPending, demoPending, reqCount, res, returned>>

aiVars == <<therapyCall, therapyResult>>

chatVars == <<messages, inputText, isTyping, characterMood, isListening, toast,
              settings, awaiting, transcriptTimers, speakTimers, clientNow>>

synthVars == <<speaking, utteranceRef, ttsCalls, audioPlaying, startSpeechTimers>>

speechVars == <<synthVars, renderedIsSpeaking>>

audioVars == <<audioData, isEnabled, processors, processorRef, startCalls>>

voiceVars == <<voiceIsListening, startingRecorder, recorder, transcribing>>

hookVars == <<localStorage, pendingSettings>>

interviewVars == <<interviewMessages, interviewState, isLoading, interviewInputText,
                   interviewCalls, reportCalls, reportContent>>

clientVars == <<aiVars, chatVars, speechVars, audioVars, voiceVars, hookVars, interviewVars>>

vars == <<storeVars, clientVars>>

-----------------------------------------------------------------------------
(* Bounds of the model *)

MaxTime == 1
MaxRequests == 3

(* Program constants *)

\* integer("user_id") without notNull(): the column may hold NULL
NULL == 0

\* An id that no row carries
UnknownId == 9

\* The users registered before the server starts, and the ids requests name:
\* 1 and 2 are the first two rows of a table, UnknownId is no row of any table
RegisteredUsers == {1, 2}
SessionIds == {1, 2, UnknownId}
DemoUsername == "demo_user"
DemoTitle == "Initial Therapy Session"
DemoWelcome == "Hello! I'm Dr. Sarah, your virtual therapist."

-----------------------------------------------------------------------------
(* Generic helpers *)

Ids(table) == {r.id : r \in table}

Has(body, f) == f \in DOMAIN body

\* The empty JSON body {}
EmptyBody == <<>>

\* All orderings of a finite set of rows
Perms(S) ==
    {p \in [1..Cardinality(S) -> S] : \A i, j \in 1..Cardinality(S) : i # j => p[i] # p[j]}

Range(s) == {s[i] : i \in DOMAIN s}

-----------------------------------------------------------------------------
(* shared/schema: insert schemas (zod) *)

\* createInsertSchema(therapySessions).pick({userId, title}): title is required,
\* userId is optional and nullable
insertTherapySessionSchema(body) == Has(body, "title")

\* createInsertSchema(therapyMessages).pick({sessionId, content, isUser, mood}):
\* sessionId, content and isUser are required, mood is optional
insertTherapyMessageSchema(body) ==
    Has(body, "sessionId") /\ Has(body, "content") /\ Has(body, "isUser")

-----------------------------------------------------------------------------
(* server/storage: DatabaseStorage.  Each operator returns the outcome of the *)
(* statement: ok (FALSE when the database raises), the row, and the table.    *)

\* insert into users ... returning; username is unique
createUser(insertUser) ==
    LET row == [id |-> userIdSeq + 1, username |-> insertUser.username]
    IN  IF \E u \in users : u.username = insertUser.username
        THEN [ok |-> FALSE, rows |-> users]
        ELSE [ok |-> TRUE, row |-> row, rows |-> users \cup {row}]

\* insert into therapy_sessions ... returning; user_id references users.id,
\* created_at and updated_at default to now()
createTherapySession(insertSession) ==
    LET uid == IF Has(insertSession, "userId") THEN insertSession.userId ELSE NULL
        row == [id |-> sessionIdSeq + 1, userId |-> uid, title |-> insertSession.title,
                createdAt |-> dbNow, updatedAt |-> dbNow]
    IN  IF uid # NULL /\ uid \notin Ids(users)
        THEN [ok |-> FALSE, rows |-> therapySessions]
        ELSE [ok |-> TRUE, row |-> row, rows |-> therapySessions \cup {row}]

\* Mutant: the select ordered by updated_at without desc
getUserSessions_Ascending(userId) ==
    LET S == {s \in therapySessions : s.userId = userId}
    IN  {p \in Perms(S) : \A i, j \in DOMAIN p : i < j => p[i].updatedAt <= p[j].updatedAt}

\* select ... where user_id = userId order by updated_at desc: every ordering
\* the database may return (rows with equal updated_at come in any order)
getUserSessions(userId) ==
    LET S == {s \in therapySessions : s.userId = userId}
    IN  {p \in Perms(S) : \A i, j \in DOMAIN p : i < j => p[i].updatedAt >= p[j].updatedAt}

\* select ... where id = sessionId
getSession(sessionId) == {s \in therapySessions : s.id = sessionId}

\* Mutant: the update without its WHERE clause
updateSessionTitle_NoWhere(sessionId, body) ==
    {[s EXCEPT !.title = IF Has(body, "title") THEN body.title ELSE @,
               !.updatedAt = appNow] : s \in therapySessions}

\* update therapy_sessions set title, updated_at = new Date() where id = sessionId.
\* A title that is undefined is left out of the SET clause.
updateSessionTitle(sessionId, body) ==
    {IF s.id = sessionId
     THEN [s EXCEPT !.title = IF Has(body, "title") THEN body.title ELSE @,
                    !.updatedAt = appNow]
     ELSE s : s \in therapySessions}

\* Mutant: the insert without the foreign key on session_id
createTherapyMessage_NoForeignKey(insertMessage) ==
    LET row == [id |-> messageIdSeq + 1, sessionId |-> insertMessage.sessionId,
                content |-> insertMessage.content, isUser |-> insertMessage.isUser,
                mood |-> IF Has(insertMessage, "mood") THEN insertMessage.mood ELSE "null",
                createdAt |-> dbNow]
    IN  [ok |-> TRUE, row |-> row, rows |-> therapyMessages \cup {row}]

\* insert into therapy_messages ... returning; session_id references
\* therapy_sessions.id, created_at defaults to now()
createTherapyMessage(insertMessage) ==
    LET row == [id |-> messageIdSeq + 1, sessionId |-> insertMessage.sessionId,
                content |-> insertMessage.content, isUser |-> insertMessage.isUser,
                mood |-> IF Has(insertMessage, "mood") THEN insertMessage.mood ELSE "null",
                createdAt |-> dbNow]
    IN  IF insertMessage.sessionId \notin Ids(therapySessions)
        THEN [ok |-> FALSE, rows |-> therapyMessages]
        ELSE [ok |-> TRUE, row |-> row, rows |-> therapyMessages \cup {row}]

\* Mutant: the select without its WHERE clause
getSessionMessages_NoWhere(sessionId) ==
    {p \in Perms(therapyMessages) :
        \A i, j \in DOMAIN p : i < j => p[i].createdAt <= p[j].createdAt}

\* select ... where session_id = sessionId order by created_at: every ordering
\* the database may return
getSessionMessages(sessionId) ==
    LET S == {m \in therapyMessages : m.sessionId = sessionId}
    IN  {p \in Perms(S) : \A i, j \in DOMAIN p : i < j => p[i].createdAt <= p[j].createdAt}

-----------------------------------------------------------------------------
(* server/routes: the session and message handlers *)

\* The server takes one more request
Accept ==
    /\ reqCount < MaxRequests
    /\ reqCount' = reqCount + 1

SessionBodies ==
    {[title |-> "Initial"], [userId |-> 1, title |-> "Initial"],
     [userId |-> UnknownId, title |-> "Initial"], [userId |-> 1]}

\* POST /api/sessions
PostSessions(body) ==
    /\ UNCHANGED clientVars
    /\ Accept
    /\ IF ~insertTherapySessionSchema(body)
       THEN /\ res' = [status |-> 400, error |-> "Invalid session data"]
            /\ UNCHANGED <<therapySessions, sessionIdSeq>>
       ELSE /\ LET r == createTherapySession(body)
               IN  /\ therapySessions' = r.rows
                   /\ sessionIdSeq' = sessionIdSeq + 1
                   /\ res' = IF r.ok THEN [status |-> 200, json |-> r.row]
                             ELSE [status |-> 400, error |-> "Invalid session data"]
    /\ UNCHANGED <<users, therapyMessages, userSettings, userIdSeq, messageIdSeq,
                   settingsIdSeq, dbNow, appNow, variant, settingsPending, demoPending, returned>>

\* GET /api/sessions/:userId
GetSessions(userId) ==
    /\ UNCHANGED clientVars
    /\ Accept
    /\ \E list \in getUserSessions(userId) : res' = [status |-> 200, list |-> list]
    /\ UNCHANGED <<users, therapySessions, therapyMessages, userSettings, userIdSeq,
                   sessionIdSeq, messageIdSeq, settingsIdSeq, dbNow, appNow, variant,
                   settingsPending, demoPending, returned>>

\* GET /api/session/:sessionId
GetSession(sessionId) ==
    /\ UNCHANGED clientVars
    /\ Accept
    /\ IF getSession(sessionId) = {}
       THEN res' = [status |-> 404, error |-> "Session not found"]
       ELSE \E s \in getSession(sessionId) : res' = [status |-> 200, json |-> s]
    /\ UNCHANGED <<users, therapySessions, therapyMessages, userSettings, userIdSeq,
                   sessionIdSeq, messageIdSeq, settingsIdSeq, dbNow, appNow, variant,
                   settingsPending, demoPending, returned>>

\* PATCH /api/session/:sessionId/title
PatchSessionTitle(sessionId, body) ==
    /\ UNCHANGED clientVars
    /\ Accept
    /\ therapySessions' = updateSessionTitle(sessionId, body)
    /\ res' = [status |-> 200, json |-> [success |-> TRUE]]
    /\ UNCHANGED <<users, therapyMessages, userSettings, userIdSeq, sessionIdSeq,
                   messageIdSeq, settingsIdSeq, dbNow, appNow, variant, settingsPending, demoPending,
                   returned>>

MessageBodies ==
    {[sessionId |-> s, content |-> "I feel anxious", isUser |-> TRUE] : s \in SessionIds}
        \cup {[sessionId |-> 1, content |-> "I hear you.", isUser |-> FALSE, mood |-> "idle"],
              [sessionId |-> 1, isUser |-> TRUE], [sessionId |-> 1, content |-> "I feel anxious"],
              [content |-> "I feel anxious", isUser |-> TRUE]}

\* Mutant: the catch of POST /api/messages answering 500 as the update routes do
PostMessages_Status500(body) ==
    /\ UNCHANGED clientVars
    /\ Accept
    /\ IF ~insertTherapyMessageSchema(body)
       THEN /\ res' = [status |-> 500, error |-> "Invalid message data"]
            /\ UNCHANGED <<therapyMessages, messageIdSeq, returned>>
       ELSE /\ LET r == createTherapyMessage(body)
               IN  /\ therapyMessages' = r.rows
                   /\ messageIdSeq' = messageIdSeq + 1
                   /\ returned' = IF r.ok THEN Append(returned, r.row) ELSE returned
                   /\ res' = IF r.ok THEN [status |-> 200, json |-> r.row]
                             ELSE [status |-> 500, error |-> "Invalid message data"]
    /\ UNCHANGED <<users, therapySessions, userSettings, userIdSeq, sessionIdSeq,
                   settingsIdSeq, dbNow, appNow, variant, settingsPending, demoPending>>

\* POST /api/messages
PostMessages(body) ==
    /\ UNCHANGED clientVars
    /\ Accept
    /\ IF ~insertTherapyMessageSchema(body)
       THEN /\ res' = [status |-> 400, error |-> "Invalid message data"]
            /\ UNCHANGED <<therapyMessages, messageIdSeq, returned>>
       ELSE /\ LET r == createTherapyMessage(body)
               IN  /\ therapyMessages' = r.rows
                   /\ messageIdSeq' = messageIdSeq + 1
                   /\ returned' = IF r.ok THEN Append(returned, r.row) ELSE returned
                   /\ res' = IF r.ok THEN [status |-> 200, json |-> r.row]
                             ELSE [status |-> 400, error |-> "Invalid message data"]
    /\ UNCHANGED <<users, therapySessions, userSettings, userIdSeq, sessionIdSeq,
                   settingsIdSeq, dbNow, appNow, variant, settingsPending, demoPending>>

\* GET /api/messages/:sessionId
GetMessages(sessionId) ==
    /\ UNCHANGED clientVars
    /\ Accept
    /\ \E list \in getSessionMessages(sessionId) : res' = [status |-> 200, list |-> list]
    /\ UNCHANGED <<users, therapySessions, therapyMessages, userSettings, userIdSeq,
                   sessionIdSeq, messageIdSeq, settingsIdSeq, dbNow, appNow, variant,
                   settingsPending, demoPending, returned>>

\* POST /api/demo/init (second routes version): demo user, first session, welcome
\* message.  The three inserts are separate awaited statements, so the handler
\* is three steps and other requests run in between.
DemoInitUser ==
    /\ UNCHANGED clientVars
    /\ variant = 2
    /\ Accept
    /\ LET u == createUser([username |-> DemoUsername, password |-> "demo_password"])
       IN  /\ users' = u.rows
           /\ userIdSeq' = userIdSeq + 1
           /\ IF u.ok
              THEN /\ demoPending' = demoPending \cup {[step |-> "session", user |-> u.row]}
                   /\ UNCHANGED res
              ELSE /\ res' = [status |-> 500, error |-> "Failed to initialize demo"]
                   /\ UNCHANGED demoPending
    /\ UNCHANGED <<therapySessions, therapyMessages, userSettings, sessionIdSeq,
                   messageIdSeq, settingsIdSeq, dbNow, appNow, variant, settingsPending,
                   returned>>

DemoInitSession(h) ==
    /\ UNCHANGED clientVars
    /\ h \in demoPending
    /\ h.step = "session"
    /\ LET s == createTherapySession([userId |-> h.user.id, title |-> DemoTitle])
       IN  /\ therapySessions' = s.rows
           /\ sessionIdSeq' = sessionIdSeq + 1
           /\ IF s.ok
              THEN /\ demoPending' = (demoPending \ {h}) \cup
                          {[step |-> "message", user |-> h.user, session |-> s.row]}
                   /\ UNCHANGED res
              ELSE /\ res' = [status |-> 500, error |-> "Failed to initialize demo"]
                   /\ demoPending' = demoPending \ {h}
    /\ UNCHANGED <<users, therapyMessages, userSettings, userIdSeq, messageIdSeq,
                   settingsIdSeq, dbNow, appNow, variant, settingsPending, reqCount,
                   returned>>

DemoInitMessage(h) ==
    /\ UNCHANGED clientVars
    /\ h \in demoPending
    /\ h.step = "message"
    /\ LET m == createTherapyMessage([sessionId |-> h.session.id, content |-> DemoWelcome,
                                      isUser |-> FALSE, mood |-> "idle"])
       IN  /\ therapyMessages' = m.rows
           /\ messageIdSeq' = messageIdSeq + 1
           /\ returned' = IF m.ok THEN Append(returned, m.row) ELSE returned
           /\ res' = IF m.ok
                     THEN [status |-> 200, json |-> [user |-> h.user, session |-> h.session]]
                     ELSE [status |-> 500, error |-> "Failed to initialize demo"]
           /\ demoPending' = demoPending \ {h}
    /\ UNCHANGED <<users, therapySessions, userSettings, userIdSeq, sessionIdSeq,
                   settingsIdSeq, dbNow, appNow, variant, settingsPending, reqCount>>

\* The clocks advance on their own
TickDb ==
    /\ UNCHANGED clientVars
    /\ dbNow < MaxTime
    /\ dbNow' = dbNow + 1
    /\ UNCHANGED <<users, therapySessions, therapyMessages, userSettings, userIdSeq,
                   sessionIdSeq, messageIdSeq, settingsIdSeq, appNow, variant,
                   settingsPending, demoPending, reqCount, res, returned>>

TickApp ==
    /\ UNCHANGED clientVars
    /\ appNow < MaxTime
    /\ appNow' = appNow + 1
    /\ UNCHANGED <<users, therapySessions, therapyMessages, userSettings, userIdSeq,
                   sessionIdSeq, messageIdSeq, settingsIdSeq, dbNow, variant,
                   settingsPending, demoPending, reqCount, res, returned>>

-----------------------------------------------------------------------------
(* The store after the schema is pushed: the registered users and no other   *)
(* row.  The session and message routes are the same in both versions of the *)
(* routes file; the second, which adds /api/demo/init, is the one running.   *)

\* No response-generation call is being served
NoCall == [fn |-> "none"]

\* The message TherapyChat starts with, and clearChat restores
Greeting ==
    "Hello! I'm Dr. Sarah, your virtual therapist. I'm here to listen and help you work through whatever is on your mind. How are you feeling today?"

\* The browser's clock when TherapyChat mounts: Date.now() is far past 1, the
\* number whose decimal string is the greeting's id
MountTime == 2

\* n.toString(), kept as the number the decimal string denotes
toString(n) == n

GreetingMessage(now) ==
    [id |-> toString(1), text |-> [type |-> "string", value |-> Greeting],
     isUser |-> FALSE, timestamp |-> now]

\* The settings fields the chat turn reads
DEFAULT_SETTINGS ==
    [voiceEnabled |-> TRUE, therapistPersonality |-> "warm",
     audioVisualizationEnabled |-> FALSE]

\* localStorage.getItem when nothing is stored under the key
NoItem == [type |-> "null"]

\* JSON.stringify and JSON.parse for a settings object, whose fields are
\* booleans and strings: the item stored is a string that parses to an object
\* with the same fields
JSONstringify(value) == [type |-> "string", json |-> value]

JSONparse(item) == item.json

\* An interview state without sessionId (the field is optional; the guards
\* test it with !, which undefined and 0 both pass)
NoSessionId == 0

\* useState of interviewState, and what resetInterview sets
NewInterviewState == [sessionId |-> NoSessionId, questionCount |-> 0, isComplete |-> FALSE]

\* No setLocalSettings is waiting for the next render
NoUpdate == [type |-> "none"]

\* utteranceRef.current when no utterance is kept
NoUtterance == [type |-> "null"]

\* useAudioVisualization: the audio data before any sound is heard
QuietAudioData == [isUserSpeaking |-> FALSE, audioLevel |-> 0, intensity |-> "low"]

\* TherapyChat as mounted, with the settings given
InitChat(initialSettings) ==
    /\ messages = <<GreetingMessage(MountTime)>>
    /\ inputText = <<>>
    /\ isTyping = FALSE
    /\ characterMood = "idle"
    /\ isListening = FALSE
    /\ toast = "none"
    /\ settings = initialSettings
    /\ awaiting = <<>>
    /\ transcriptTimers = <<>>
    /\ speakTimers = <<>>
    /\ clientNow = MountTime
    /\ speaking = FALSE
    /\ utteranceRef = NoUtterance
    /\ renderedIsSpeaking = FALSE
    /\ ttsCalls = <<>>
    /\ audioPlaying = 0
    /\ startSpeechTimers = <<>>
    /\ audioData = QuietAudioData
    /\ isEnabled = FALSE
    /\ processors = <<>>
    /\ processorRef = 0
    /\ startCalls = <<>>
    /\ voiceIsListening = FALSE
    /\ startingRecorder = 0
    /\ recorder = "none"
    /\ transcribing = 0
    /\ localStorage = IF initialSettings = DEFAULT_SETTINGS THEN NoItem
                      ELSE JSONstringify(initialSettings)
    /\ pendingSettings = NoUpdate
    /\ interviewMessages = <<>>
    /\ interviewState = NewInterviewState
    /\ isLoading = FALSE
    /\ interviewInputText = <<>>
    /\ interviewCalls = <<>>
    /\ reportCalls = <<>>
    /\ reportContent = NoSessionId

InitClient ==
    /\ therapyCall = NoCall
    /\ therapyResult = NoCall
    /\ InitChat(DEFAULT_SETTINGS)

InitStore ==
    /\ users = {[id |-> i, username |-> <<"user", i>>] : i \in RegisteredUsers}
    /\ userIdSeq = Cardinality(RegisteredUsers)
    /\ therapySessions = {}
    /\ therapyMessages = {}
    /\ userSettings = {}
    /\ sessionIdSeq = 0
    /\ messageIdSeq = 0
    /\ settingsIdSeq = 0
    /\ dbNow = 0
    /\ appNow = 0
    /\ variant = 2
    /\ settingsPending = <<>>
    /\ demoPending = {}
    /\ reqCount = 0
    /\ res = [status |-> 0]
    /\ returned = <<>>
    /\ InitClient

NextSessions ==
    \/ \E body \in SessionBodies : PostSessions(body)
    \/ \E u \in RegisteredUsers : GetSessions(u)
    \/ \E s \in {1, UnknownId} : GetSession(s)
    \/ \E s \in SessionIds, body \in {[title |-> "Renamed"], EmptyBody} :
          PatchSessionTitle(s, body)
    \/ \E body \in MessageBodies : PostMessages(body)
    \/ \E s \in SessionIds : GetMessages(s)
    \/ DemoInitUser
    \/ \E h \in demoPending : DemoInitSession(h)
    \/ \E h \in demoPending : DemoInitMessage(h)
    \/ TickDb
    \/ TickApp

SpecSessions == InitStore /\ [][NextSessions]_vars

-----------------------------------------------------------------------------
(* Settings: schema, storage and routes *)

\* JSON numbers are represented in hundredths, so that the fractions the API
\* documents (0.9, 1.1) and the integers the table stores (90, 110) are both
\* values of the model: Number(0, 90) is 0.9 and Number(90, 0) is 90.
Scale == 100

Number(whole, hundredths) == whole * Scale + hundredths

\* An integer column takes integral values only: the driver sends 0.9 as the
\* text '0.9', which is no valid input of the type
IsInteger(v) == v % Scale = 0

SettingsFields ==
    {"voiceEnabled", "speechRate", "speechPitch", "language", "therapistPersonality",
     "audioVisualizationEnabled"}

\* The column defaults of user_settings
ColumnDefault ==
    [voiceEnabled |-> TRUE, speechRate |-> Number(90, 0), speechPitch |-> Number(110, 0),
     language |-> "en-US", therapistPersonality |-> "warm",
     audioVisualizationEnabled |-> FALSE]

\* createInsertSchema(userSettings).omit({id, updatedAt}): userId is required,
\* the columns with a default are optional
insertUserSettingsSchema(body) == Has(body, "userId")

\* Mutant: user_id without its unique constraint
SettingsRowAccepted_NoUnique(row, others) ==
    /\ IsInteger(row.speechRate)
    /\ IsInteger(row.speechPitch)
    /\ row.userId \in Ids(users)

\* The values a row would hold violate no constraint of user_settings: integer
\* columns, user_id references users.id, user_id unique among the other rows
SettingsRowAccepted(row, others) ==
    /\ IsInteger(row.speechRate)
    /\ IsInteger(row.speechPitch)
    /\ row.userId \in Ids(users)
    /\ \A o \in others : o.userId # row.userId

\* select ... from user_settings where user_id = userId
getUserSettings(userId) == {s \in userSettings : s.userId = userId}

\* insert into user_settings ... returning; a column the values leave out takes
\* its default, updated_at defaults to now()
createUserSettings(insertSettings) ==
    LET row == [f \in SettingsFields \cup {"id", "userId", "updatedAt"} |->
                    CASE f = "id" -> settingsIdSeq + 1
                      [] f = "userId" -> insertSettings.userId
                      [] f = "updatedAt" -> dbNow
                      [] OTHER -> IF Has(insertSettings, f) THEN insertSettings[f]
                                  ELSE ColumnDefault[f]]
    IN  IF SettingsRowAccepted(row, userSettings)
        THEN [ok |-> TRUE, row |-> row, rows |-> userSettings \cup {row}]
        ELSE [ok |-> FALSE, rows |-> userSettings]

\* The values of an UPDATE's SET clause are valid input of their columns
\* (checked when the statement is bound, whether or not a row matches)
SetValuesAccepted(updateSettings) ==
    /\ Has(updateSettings, "speechRate") => IsInteger(updateSettings.speechRate)
    /\ Has(updateSettings, "speechPitch") => IsInteger(updateSettings.speechPitch)

\* update user_settings set ...updateSettings, updated_at = new Date()
\* where user_id = userId returning.  `found` is the row returned, if any.
updateUserSettings(userId, updateSettings) ==
    LET Updated(s) == [f \in DOMAIN s |->
                          IF f = "updatedAt" THEN appNow
                          ELSE IF Has(updateSettings, f) THEN updateSettings[f] ELSE s[f]]
        hit == getUserSettings(userId)
        new == {Updated(s) : s \in hit}
    IN  IF /\ SetValuesAccepted(updateSettings)
           /\ \A s \in hit : SettingsRowAccepted(Updated(s), userSettings \ {s})
        THEN [ok |-> TRUE, found |-> new, rows |-> (userSettings \ hit) \cup new]
        ELSE [ok |-> FALSE, rows |-> userSettings]

\* The defaults GET /api/settings/:userId inserts when the user has no row: the
\* first version of the routes file passes fractions, the second integers
RouteDefaultSettings(userId) ==
    IF variant = 1
    THEN [userId |-> userId, voiceEnabled |-> TRUE, speechRate |-> Number(0, 90),
          speechPitch |-> Number(1, 10), language |-> "en-US",
          therapistPersonality |-> "warm", audioVisualizationEnabled |-> FALSE]
    ELSE [userId |-> userId, voiceEnabled |-> TRUE, speechRate |-> Number(90, 0),
          speechPitch |-> Number(110, 0), language |-> "en-US",
          therapistPersonality |-> "warm", audioVisualizationEnabled |-> FALSE]

\* The users requests name: the registered ones and one that does not exist
RequestUsers == RegisteredUsers \cup {UnknownId}

\* GET /api/settings/:userId, up to its first await: the row is read; when
\* there is one it is the response, otherwise the handler goes on to insert
GetSettingsRead(userId) ==
    /\ UNCHANGED clientVars
    /\ Accept
    /\ IF getUserSettings(userId) # {}
       THEN /\ \E s \in getUserSettings(userId) : res' = [status |-> 200, json |-> s]
            /\ UNCHANGED settingsPending
       ELSE /\ settingsPending' = Append(settingsPending, userId)
            /\ UNCHANGED res
    /\ UNCHANGED <<users, therapySessions, therapyMessages, userSettings, userIdSeq,
                   sessionIdSeq, messageIdSeq, settingsIdSeq, dbNow, appNow, variant,
                   demoPending, returned>>

\* GET /api/settings/:userId, after the read found no row: the defaults are
\* inserted and the created row is the response
GetSettingsCreate(i) ==
    /\ UNCHANGED clientVars
    /\ i \in DOMAIN settingsPending
    /\ LET userId == settingsPending[i]
           r == createUserSettings(RouteDefaultSettings(userId))
       IN  /\ userSettings' = r.rows
           /\ settingsIdSeq' = settingsIdSeq + 1
           /\ res' = IF r.ok THEN [status |-> 200, json |-> r.row]
                     ELSE [status |-> 500, error |-> "Failed to fetch settings"]
    /\ settingsPending' = [k \in 1..(Len(settingsPending) - 1) |->
                              IF k < i THEN settingsPending[k] ELSE settingsPending[k + 1]]
    /\ UNCHANGED <<users, therapySessions, therapyMessages, userIdSeq, sessionIdSeq,
                   messageIdSeq, dbNow, appNow, variant, demoPending, reqCount,
                   returned>>

PostSettingsBodies ==
    {[userId |-> u] : u \in RequestUsers}
        \cup {[userId |-> 1, voiceEnabled |-> FALSE],
              [userId |-> 2, speechRate |-> Number(0, 90)],
              [voiceEnabled |-> FALSE]}

\* POST /api/settings (first routes version only)
PostSettings(body) ==
    /\ UNCHANGED clientVars
    /\ variant = 1
    /\ Accept
    /\ IF ~insertUserSettingsSchema(body)
       THEN /\ res' = [status |-> 400, error |-> "Invalid settings data"]
            /\ UNCHANGED <<userSettings, settingsIdSeq>>
       ELSE /\ LET r == createUserSettings(body)
               IN  /\ userSettings' = r.rows
                   /\ settingsIdSeq' = settingsIdSeq + 1
                   /\ res' = IF r.ok THEN [status |-> 200, json |-> r.row]
                             ELSE [status |-> 400, error |-> "Invalid settings data"]
    /\ UNCHANGED <<users, therapySessions, therapyMessages, userIdSeq, sessionIdSeq,
                   messageIdSeq, dbNow, appNow, variant, settingsPending, demoPending,
                   returned>>

\* Bodies of PATCH /api/settings/:userId: each single field, the empty body,
\* two fields at once
SingleFieldBodies ==
    {[voiceEnabled |-> FALSE], [speechRate |-> Number(100, 0)],
     [speechRate |-> Number(0, 80)], [speechPitch |-> Number(120, 0)],
     [language |-> "es-ES"], [therapistPersonality |-> "gentle"],
     [audioVisualizationEnabled |-> TRUE]}

PatchSettingsBodies ==
    SingleFieldBodies
        \cup {EmptyBody, [userId |-> 2], [voiceEnabled |-> FALSE, language |-> "es-ES"]}

\* PATCH /api/settings/:userId; when no row matches, settings is undefined and
\* res.json(undefined) sends a 200 without a body
PatchSettings(userId, body) ==
    /\ UNCHANGED clientVars
    /\ Accept
    /\ LET r == updateUserSettings(userId, body)
       IN  /\ userSettings' = r.rows
           /\ IF ~r.ok
              THEN res' = [status |-> 500, error |-> "Failed to update settings"]
              ELSE IF r.found = {}
                   THEN res' = [status |-> 200]
                   ELSE \E s \in r.found : res' = [status |-> 200, json |-> s]
    /\ UNCHANGED <<users, therapySessions, therapyMessages, userIdSeq, sessionIdSeq,
                   messageIdSeq, settingsIdSeq, dbNow, appNow, variant, settingsPending,
                   demoPending, returned>>

\* The settings routes of either version of the routes file
InitSettings ==
    /\ users = {[id |-> i, username |-> <<"user", i>>] : i \in RegisteredUsers}
    /\ userIdSeq = Cardinality(RegisteredUsers)
    /\ therapySessions = {}
    /\ therapyMessages = {}
    /\ userSettings = {}
    /\ sessionIdSeq = 0
    /\ messageIdSeq = 0
    /\ settingsIdSeq = 0
    /\ dbNow = 0
    /\ appNow = 0
    /\ variant \in {1, 2}
    /\ settingsPending = <<>>
    /\ demoPending = {}
    /\ reqCount = 0
    /\ res = [status |-> 0]
    /\ returned = <<>>
    /\ InitClient

NextSettings ==
    \/ \E u \in RequestUsers : GetSettingsRead(u)
    \/ \E i \in DOMAIN settingsPending : GetSettingsCreate(i)
    \/ \E body \in PostSettingsBodies : PostSettings(body)
    \/ \E u \in RequestUsers, body \in PatchSettingsBodies : PatchSettings(u, body)
    \/ TickDb
    \/ TickApp

SpecSettings == InitSettings /\ [][NextSettings]_vars

-----------------------------------------------------------------------------
(* Claims about settings, checked under SpecSettings *)

\* The defaults the API documents: speechRate 0.9, speechPitch 1.1
DocumentedDefaults ==
    [voiceEnabled |-> TRUE, speechRate |-> Number(0, 90), speechPitch |-> Number(1, 10),
     language |-> "en-US", therapistPersonality |-> "warm",
     audioVisualizationEnabled |-> FALSE]

\* C6: for a user with no settings row, the GET that finds none creates exactly
\* one row and returns the documented defaults; a GET that finds the row
\* returns it and creates nothing.
C6_FirstGetCreatesDocumentedDefaults ==
    [][/\ \A i \in DOMAIN settingsPending :
            (/\ settingsPending[i] \in RegisteredUsers
             /\ getUserSettings(settingsPending[i]) = {}
             /\ GetSettingsCreate(i))
            => /\ res'.status = 200
               /\ \A f \in SettingsFields : res'.json[f] = DocumentedDefaults[f]
               /\ res'.json.userId = settingsPending[i]
               /\ userSettings' = userSettings \cup {res'.json}
       /\ \A u \in RegisteredUsers :
            (getUserSettings(u) # {} /\ GetSettingsRead(u))
            => /\ userSettings' = userSettings
               /\ res'.status = 200
               /\ res'.json \in getUserSettings(u)]_vars

\* C7: after any sequence of GET, POST and PATCH settings calls there is at
\* most one settings row per userId.
C7_OneSettingsRowPerUser ==
    \A a, b \in userSettings : a.userId = b.userId => a = b

\* C7 witness: a user has a row, and a later insert was refused by the database
\* (its id was drawn from the serial, no row was kept, the handler answered 500)
C7_Witness ==
    \E u \in RegisteredUsers :
        /\ Cardinality(getUserSettings(u)) = 1
        /\ \A r \in userSettings : r.userId = u
        /\ settingsIdSeq > Cardinality(userSettings)
        /\ res.status = 500

\* The effect PATCH with the one-field `body` is to have on the row of `userId`
PatchedRow(s, body) ==
    [f \in DOMAIN s |-> IF f = "updatedAt" THEN appNow
                        ELSE IF Has(body, f) THEN body[f] ELSE s[f]]

PatchFrame(u, body) ==
    /\ \A s \in getUserSettings(u) : PatchedRow(s, body) \in userSettings'
    /\ \A s \in userSettings : s.userId # u => s \in userSettings'
    /\ Cardinality(userSettings') = Cardinality(userSettings)

\* C8: PATCH /settings/{userId} with a single field changes that field,
\* refreshes updatedAt, and leaves every other field of the row, and every other
\* user's row, unchanged.
C8_PatchChangesOneFieldOnly ==
    [][\A u \in RegisteredUsers : \A body \in SingleFieldBodies :
          (getUserSettings(u) # {} /\ PatchSettings(u, body)) => PatchFrame(u, body)]_vars

\* The same for the one-field bodies whose value the column accepts (it holds)
PatchFrameForAcceptedValues ==
    [][\A u \in RegisteredUsers : \A body \in SingleFieldBodies :
          (/\ getUserSettings(u) # {}
           /\ SetValuesAccepted(body)
           /\ PatchSettings(u, body)) => PatchFrame(u, body)]_vars

-----------------------------------------------------------------------------
(* Claims about sessions and messages, checked under SpecSessions *)

\* The rows createTherapyMessage has returned for a session
ReturnedFor(sessionId) ==
    {returned[i] : i \in {k \in DOMAIN returned : returned[k].sessionId = sessionId}}

\* C3: for every existing session, after N createTherapyMessage calls for it
\* (interleaved with calls for other sessions), every list getSessionMessages can
\* return holds exactly the N rows those calls returned, in non-decreasing
\* createdAt order.
C3_ListIsTheAppendedMessagesInOrder ==
    \A s \in therapySessions :
        /\ getSessionMessages(s.id) # {}
        /\ \A list \in getSessionMessages(s.id) :
            /\ Len(list) = Cardinality({k \in DOMAIN returned : returned[k].sessionId = s.id})
            /\ Range(list) = ReturnedFor(s.id)
            /\ \A i, j \in DOMAIN list : i < j => list[i].createdAt <= list[j].createdAt

\* C3 witness: a session with two appended messages of different createdAt
C3_Witness ==
    \E s \in therapySessions : \E list \in getSessionMessages(s.id) :
        /\ Len(list) = 2
        /\ list[1].createdAt < list[2].createdAt
        /\ Cardinality(ReturnedFor(s.id)) = 2

\* C5: every stored message references an existing session, and a POST
\* /api/messages naming a session id that does not exist is answered with an
\* error and stores no message.
C5_MessageReferencesExistingSession ==
    /\ [](\A m \in therapyMessages : m.sessionId \in Ids(therapySessions))
    /\ [][\A body \in MessageBodies :
            (/\ insertTherapyMessageSchema(body)
             /\ body.sessionId \notin Ids(therapySessions)
             /\ PostMessages(body))
            => (res'.status = 400 /\ therapyMessages' = therapyMessages)]_vars

\* C5 witness: messages are stored, and the last POST /api/messages was refused
\* by the database (its id was drawn from the serial and no row kept)
C5_Witness ==
    /\ therapyMessages # {}
    /\ res.status = 400
    /\ res.error = "Invalid message data"
    /\ messageIdSeq > Cardinality(therapyMessages)

\* C9: renaming a session sets its title and sets its updatedAt to the server's
\* current time, and leaves its id, createdAt and userId, every message and
\* every other session as they were.
C9_RenameChangesTitleAndUpdatedAtOnly ==
    [][\A sid \in SessionIds :
          PatchSessionTitle(sid, [title |-> "Renamed"]) =>
            /\ \A s \in therapySessions :
                  IF s.id = sid
                  THEN [s EXCEPT !.title = "Renamed", !.updatedAt = appNow] \in therapySessions'
                  ELSE s \in therapySessions'
            /\ Cardinality(therapySessions') = Cardinality(therapySessions)
            /\ therapyMessages' = therapyMessages]_vars

\* C9 witness: a renamed session that has a message, beside another session that
\* was not renamed
C9_Witness ==
    \E s, o \in therapySessions :
        /\ s.title = "Renamed"
        /\ s.updatedAt # s.createdAt
        /\ o.id # s.id
        /\ o.title # "Renamed"
        /\ \E m \in therapyMessages : m.sessionId = s.id
        /\ res = [status |-> 200, json |-> [success |-> TRUE]]

\* C10: a session's updatedAt is bumped on every new message: it is never
\* earlier than the createdAt of a message of the session.
C10_UpdatedAtCoversMessages ==
    \A m \in therapyMessages : \A s \in therapySessions :
        s.id = m.sessionId => s.updatedAt >= m.createdAt

-----------------------------------------------------------------------------
(* Response generation: POST /api/therapy/response (server/routes),          *)
(* generateTherapyResponse (client/src/lib/openai.ts) and generateAIResponse *)
(* (TherapyChat).  A user message is its sequence of characters, so that     *)
(* toLowerCase and includes do what they do in the code; the canned replies  *)
(* are only compared and tested for emptiness and stay strings.              *)

\* The JavaScript values a reply can be
undefined == [type |-> "undefined"]

String(s) == [type |-> "string", value |-> s]

\* What `!v` and `v || w` test
Truthy(v) ==
    \/ v.type \in {"array", "object", "function"}
    \/ v.type = "string" /\ v.value /= ""

\* a || b
Or(a, b) == IF Truthy(a) THEN a ELSE b

LowerCase ==
    ("A" :> "a") @@ ("B" :> "b") @@ ("C" :> "c") @@ ("D" :> "d") @@ ("E" :> "e") @@ ("F" :> "f") @@ ("G" :> "g") @@ ("H" :> "h") @@ ("I" :> "i") @@ ("J" :> "j") @@ ("K" :> "k") @@ ("L" :> "l") @@ ("M" :> "m")
    @@ ("N" :> "n") @@ ("O" :> "o") @@ ("P" :> "p") @@ ("Q" :> "q") @@ ("R" :> "r") @@ ("S" :> "s") @@ ("T" :> "t") @@ ("U" :> "u") @@ ("V" :> "v") @@ ("W" :> "w") @@ ("X" :> "x") @@ ("Y" :> "y") @@ ("Z" :> "z")

toLowerCase(s) ==
    [i \in 1..Len(s) |-> IF s[i] \in DOMAIN LowerCase THEN LowerCase[s[i]] ELSE s[i]]

includes(s, keyword) ==
    \E i \in 0..(Len(s) - Len(keyword)) : SubSeq(s, i + 1, i + Len(keyword)) = keyword

\* Math.random() is rnd / RandomSteps, rnd in Randoms
RandomSteps == 15

Randoms == 0..(RandomSteps - 1)

\* Math.floor(Math.random() * length)
RandomIndex(rnd, length) == (rnd * length) \div RandomSteps

\* Names every object literal inherits from Object.prototype
ObjectPrototype == {"constructor", "toString", "valueOf", "hasOwnProperty"}

\* object[key] for an object literal whose own properties all have one type
Member(object, key, type) ==
    IF key.type = "string" /\ key.value \in DOMAIN object
    THEN [type |-> type, key |-> key.value, items |-> object[key.value]]
    ELSE IF key.type = "string" /\ key.value \in ObjectPrototype
    THEN [type |-> "function", key |-> key.value]
    ELSE undefined

\* array[Math.floor(Math.random() * array.length)]; an inherited function
\* has a length and no indexed element
PickResponse(array, rnd) ==
    IF array.type = "array"
    THEN String(array.items[RandomIndex(rnd, Len(array.items)) + 1])
    ELSE undefined

\* What a call gave its caller (value returned or error thrown), whether it
\* called the LLM provider and which canned table it drew from
Returned(value, fetched, table) ==
    [outcome |-> "returned", value |-> value, fetched |-> fetched, table |-> table]

Thrown(fetched, table) ==
    [outcome |-> "thrown", value |-> undefined, fetched |-> fetched, table |-> table]

\* The provider's answers: the fetch rejects, the status is not OK, the body
\* has no choices array, or choices[0]?.message?.content is the value given
LlmOutcomes ==
    {[kind |-> "reject"], [kind |-> "status"], [kind |-> "malformed"],
     [kind |-> "content", content |-> undefined],
     [kind |-> "content", content |-> String("")],
     [kind |-> "content", content |-> String("That sounds hard. What happened?")]}

RouteDefaultResponse == "I hear you. Can you tell me more about what you're experiencing?"

RouteErrorResponse ==
    "I'm here to listen and support you. Could you share a bit more about what's on your mind?"

fallbackResponses ==
    ("warm" :>
        <<"I hear you, and I want you to know that what you're feeling is completely valid. Can you tell me more about what's been weighing on your mind?",
          "Thank you for sharing that with me. It takes courage to open up. How has this been affecting your daily life?",
          "I'm here with you through this. What do you think might help you feel more supported right now?">>)
    @@ ("professional" :>
        <<"I understand. Let's examine this situation more closely. What specific aspects concern you most?",
          "Can you identify any patterns or triggers related to what you've described?",
          "From a therapeutic perspective, what coping strategies have you tried before?">>)
    @@ ("gentle" :>
        <<"Take your time. There's no rush here. How would you like to begin exploring this?",
          "I can sense this is difficult to talk about. We can go at whatever pace feels comfortable for you.",
          "Your experience matters deeply. What feels most important for you to share right now?">>)
    @@ ("encouraging" :>
        <<"You've already taken an important step by reaching out. What strengths do you see in yourself?",
          "I believe in your ability to work through this. What progress have you made recently?",
          "You have more resilience than you might realize. How have you overcome challenges before?">>)
    @@ ("analytical" :>
        <<"Let's break this down systematically. What are the key components of this situation?",
          "I'm noticing some interesting themes in what you've shared. How do these connect for you?",
          "From a cognitive perspective, what thoughts seem to be driving these feelings?">>)

\* POST /api/therapy/response: the status and the response it sends
therapyResponse(body, apiKey, llm, rnd) ==
    IF body = undefined
    THEN [status |-> 500] @@ Returned(String(RouteErrorResponse), FALSE, "none")
    ELSE LET personality == IF Has(body, "personality") THEN String(body.personality)
                            ELSE undefined
             response == IF apiKey /\ llm.kind = "content"
                         THEN Or(llm.content, String(RouteDefaultResponse))
                         ELSE undefined
             personalityResponses ==
                 Or(Member(fallbackResponses, personality, "array"),
                    Member(fallbackResponses, String("warm"), "array"))
         IN  IF Truthy(response)
             THEN [status |-> 200] @@ Returned(response, apiKey, "none")
             ELSE [status |-> 200]
                  @@ Returned(PickResponse(personalityResponses, rnd), apiKey,
                              personalityResponses.key)

emotions ==
    <<<<"sad",
        {<<"s", "a", "d">>,
         <<"d", "e", "p", "r", "e", "s", "s", "e", "d">>,
         <<"d", "o", "w", "n">>,
         <<"u", "p", "s", "e", "t">>,
         <<"c", "r", "y">>,
         <<"h", "u", "r", "t">>,
         <<"p", "a", "i", "n">>}>>,
      <<"anxious",
        {<<"a", "n", "x", "i", "o", "u", "s">>,
         <<"w", "o", "r", "r", "y">>,
         <<"n", "e", "r", "v", "o", "u", "s">>,
         <<"s", "t", "r", "e", "s", "s">>,
         <<"p", "a", "n", "i", "c">>,
         <<"a", "f", "r", "a", "i", "d">>,
         <<"s", "c", "a", "r", "e", "d">>}>>,
      <<"angry",
        {<<"a", "n", "g", "r", "y">>,
         <<"m", "a", "d">>,
         <<"f", "u", "r", "i", "o", "u", "s">>,
         <<"f", "r", "u", "s", "t", "r", "a", "t", "e", "d">>,
         <<"a", "n", "n", "o", "y", "e", "d">>,
         <<"r", "a", "g", "e">>}>>,
      <<"happy",
        {<<"h", "a", "p", "p", "y">>,
         <<"g", "o", "o", "d">>,
         <<"g", "r", "e", "a", "t">>,
         <<"e", "x", "c", "i", "t", "e", "d">>,
         <<"j", "o", "y">>,
         <<"w", "o", "n", "d", "e", "r", "f", "u", "l">>,
         <<"a", "m", "a", "z", "i", "n", "g">>}>>,
      <<"confused",
        {<<"c", "o", "n", "f", "u", "s", "e", "d">>,
         <<"l", "o", "s", "t">>,
         <<"d", "o", "n", "'", "t", " ", "k", "n", "o", "w">>,
         <<"u", "n", "s", "u", "r", "e">>,
         <<"u", "n", "c", "l", "e", "a", "r">>}>>>>

\* The first entry of emotions one of whose keywords the message includes
detectedEmotion(message) ==
    LET hits == {i \in DOMAIN emotions : \E k \in emotions[i][2] : includes(message, k)}
    IN  IF hits = {} THEN "neutral"
        ELSE emotions[CHOOSE i \in hits : \A j \in hits : i <= j][1]

warm ==
    ("sad" :>
        <<"I can hear the pain in your words, and I want you to know that your feelings are completely valid. What do you think might help you feel a little lighter today?",
          "It sounds like you're going through a really difficult time. Remember that it's okay to not be okay. What's one small thing that usually brings you comfort?",
          "Thank you for sharing something so personal with me. Your courage to open up shows real strength. How long have you been feeling this way?">>)
    @@ ("anxious" :>
        <<"It sounds like anxiety is really weighing on you right now. Let's take a moment to breathe together. What specific thoughts are making you feel most worried?",
          "Anxiety can feel so overwhelming, but you're not alone in this. Have you noticed any particular triggers that make these feelings stronger?",
          "I can sense the tension you're carrying. Sometimes naming our fears can help reduce their power. What's the worst-case scenario you're imagining?">>)
    @@ ("angry" :>
        <<"Your anger makes complete sense given what you're dealing with. It's actually a sign that something important to you has been affected. What do you think is at the core of these feelings?",
          "I can feel the intensity of your emotions, and that's okay. Anger often protects other feelings underneath. What might those feelings be?",
          "It takes courage to express anger constructively. What would it look like if this situation were resolved in a way that felt right to you?">>)
    @@ ("happy" :>
        <<"I love hearing the joy in your words! It's wonderful that you're experiencing happiness. What's contributing most to these positive feelings?",
          "Your happiness is contagious, even through our conversation. I'm curious - what made this moment special for you?",
          "It's beautiful to witness someone in a good place. How can you nurture and sustain these positive feelings?">>)
    @@ ("confused" :>
        <<"Feeling uncertain can be really uncomfortable, but it often means you're on the verge of important growth. What aspects of the situation feel clearest to you?",
          "Confusion is a natural part of processing complex experiences. Let's explore this together - what questions are coming up for you most strongly?",
          "Sometimes sitting with uncertainty teaches us valuable things about ourselves. What would help you feel more grounded right now?">>)
    @@ ("neutral" :>
        <<"I'm here to listen to whatever you'd like to share. What's been on your mind lately?",
          "Thank you for being here with me today. How are you feeling in this moment?",
          "I appreciate you taking this time for yourself. What would be most helpful to talk about right now?">>)

responses == ("warm" :> warm)

generateFallbackResponse(userMessage, personality, fetched, rnd) ==
    LET message == toLowerCase(userMessage)
        emotion == detectedEmotion(message)
        responseCategory == Or(Member(responses, personality, "object"),
                               Member(responses, String("warm"), "object"))
    IN  IF responseCategory.type = "object"
        THEN LET categoryResponses ==
                     Or(Member(responseCategory.items, String(emotion), "array"),
                        Member(responseCategory.items, String("neutral"), "array"))
             IN  Returned(PickResponse(categoryResponses, rnd), fetched,
                          responseCategory.key)
        ELSE \* neither property of the inherited function exists: indexing
             \* undefined throws a TypeError
             Thrown(fetched, responseCategory.key)

generateTherapyResponse(userMessage, personalityArg, apiKey, llm, rnd) ==
    LET personality == IF personalityArg = undefined THEN String("warm")
                       ELSE personalityArg
    IN  IF ~apiKey
        THEN generateFallbackResponse(userMessage, personality, FALSE, rnd)
        ELSE IF llm.kind = "content"
        THEN Returned(Or(llm.content, String("")), TRUE, "none")
        ELSE generateFallbackResponse(userMessage, personality, TRUE, rnd)

\* What apiService.sendChatMessage gives: it throws (the fetch rejects or the
\* status is not OK) or resolves to the parsed body, whose response field is read
BackendOutcomes ==
    {[kind |-> "error"],
     [kind |-> "json", response |-> undefined],
     [kind |-> "json", response |-> String("")],
     [kind |-> "json", response |-> String("That sounds hard. What happened?")]}

chatFallbackResponses ==
    ("warm" :>
        <<"I hear you, and I want you to know that what you're feeling is completely valid. Can you tell me more about what's been weighing on your mind?",
          "Thank you for sharing that with me. It takes courage to open up. How has this been affecting your daily life?",
          "I'm here with you through this. What do you think might help you feel more supported right now?",
          "Your feelings are important, and I'm grateful you trust me with them. What would you like to explore together?",
          "That sounds really challenging. You're not alone in feeling this way. What resources or support do you have in your life?">>)
    @@ ("professional" :>
        <<"I understand. Let's examine this situation more closely. What specific aspects concern you most?",
          "Can you identify any patterns or triggers related to what you've described?",
          "From a therapeutic perspective, what coping strategies have you tried before?",
          "Let's work together to develop some concrete steps forward. What are your primary goals?",
          "What evidence do you have that supports or challenges these thoughts you're experiencing?">>)
    @@ ("gentle" :>
        <<"Take your time. There's no rush here. How would you like to begin exploring this?",
          "I can sense this is difficult to talk about. We can go at whatever pace feels comfortable for you.",
          "Your experience matters deeply. What feels most important for you to share right now?",
          "It's okay to feel uncertain. What small step forward might feel manageable today?",
          "You're being so brave by being here. What would feel most helpful for you in this moment?">>)
    @@ ("encouraging" :>
        <<"You've already taken an important step by reaching out. What strengths do you see in yourself?",
          "I believe in your ability to work through this. What progress have you made recently?",
          "You have more resilience than you might realize. How have you overcome challenges before?",
          "This conversation shows your commitment to growth. What motivates you to keep moving forward?",
          "You're capable of positive change. What would that change look like for you?">>)
    @@ ("analytical" :>
        <<"Let's break this down systematically. What are the key components of this situation?",
          "I'm noticing some interesting themes in what you've shared. How do these connect for you?",
          "From a cognitive perspective, what thoughts seem to be driving these feelings?",
          "What underlying beliefs might be influencing your current experience?",
          "Let's examine the relationship between your thoughts, feelings, and behaviors here.">>)

generateAIResponse(userMessage, therapistPersonality, backend, rnd) ==
    IF backend.kind = "json"
    THEN Returned(backend.response, TRUE, "none")
    ELSE LET personalityResponses ==
                 Or(Member(chatFallbackResponses, therapistPersonality, "array"),
                    Member(chatFallbackResponses, String("warm"), "array"))
         IN  Returned(PickResponse(personalityResponses, rnd), TRUE,
                      personalityResponses.key)

\* The requests: messages with and without an emotion or crisis keyword, the
\* five personalities, one no table has, one Object.prototype names, and none
UserMessages ==
    {<<"I", " ", "w", "a", "n", "t", " ", "t", "o", " ", "d", "i", "e">>,
     <<"I", " ", "f", "e", "e", "l", " ", "a", "n", "x", "i", "o", "u", "s">>,
     <<"S", "o", " ", "S", "A", "D">>,
     <<"h", "e", "l", "l", "o">>}

Personalities == {"warm", "professional", "gentle", "encouraging", "analytical"}

PersonalityInputs ==
    {String(p) : p \in Personalities \cup {"cheerful", "constructor"}} \cup {undefined}

\* Without a key no provider call is made, so its outcome is not an input
ProviderInputs ==
    {[apiKey |-> TRUE, llm |-> o] : o \in LlmOutcomes}
    \cup {[apiKey |-> FALSE, llm |-> [kind |-> "reject"]]}

RouteCalls ==
    {[fn |-> "POST /api/therapy/response", parsed |-> TRUE, userMessage |-> m,
      personality |-> p, apiKey |-> k.apiKey, llm |-> k.llm, rnd |-> r] :
        m \in UserMessages, p \in PersonalityInputs, k \in ProviderInputs, r \in Randoms}
    \cup {[fn |-> "POST /api/therapy/response", parsed |-> FALSE, userMessage |-> m,
           personality |-> undefined, apiKey |-> FALSE, llm |-> [kind |-> "reject"],
           rnd |-> 0] : m \in UserMessages}

OpenAICalls ==
    {[fn |-> "generateTherapyResponse", userMessage |-> m, personality |-> p,
      apiKey |-> k.apiKey, llm |-> k.llm, rnd |-> r] :
        m \in UserMessages, p \in PersonalityInputs, k \in ProviderInputs, r \in Randoms}

ChatCalls ==
    {[fn |-> "generateAIResponse", userMessage |-> m, personality |-> p,
      backend |-> b, rnd |-> r] :
        m \in UserMessages, p \in PersonalityInputs \ {undefined},
        b \in BackendOutcomes, r \in Randoms}

\* req.body: undefined when no body parser ran, else the parsed object, from
\* which JSON.stringify has dropped an undefined personality
RequestBody(call) ==
    IF ~call.parsed THEN undefined
    ELSE IF call.personality = undefined THEN [userMessage |-> call.userMessage]
    ELSE [userMessage |-> call.userMessage, personality |-> call.personality.value]

\* The server answers POST /api/therapy/response
ServeTherapyResponse ==
    /\ therapyCall.fn = "POST /api/therapy/response"
    /\ therapyResult = NoCall
    /\ Accept
    /\ LET r == therapyResponse(RequestBody(therapyCall), therapyCall.apiKey,
                                therapyCall.llm, therapyCall.rnd)
       IN  /\ therapyResult' = r
           /\ res' = IF r.status = 200
                     THEN [status |-> 200, json |-> [response |-> r.value]]
                     ELSE [status |-> r.status,
                           json |-> [error |-> "Failed to generate response",
                                     response |-> r.value]]
    /\ UNCHANGED <<users, therapySessions, therapyMessages, userSettings, userIdSeq,
                   sessionIdSeq, messageIdSeq, settingsIdSeq, dbNow, appNow, variant,
                   settingsPending, demoPending, returned, therapyCall, chatVars,
                   speechVars, audioVars, voiceVars, hookVars, interviewVars>>

\* A caller awaits generateTherapyResponse
CallGenerateTherapyResponse ==
    /\ therapyCall.fn = "generateTherapyResponse"
    /\ therapyResult = NoCall
    /\ therapyResult' = generateTherapyResponse(therapyCall.userMessage,
                            therapyCall.personality, therapyCall.apiKey,
                            therapyCall.llm, therapyCall.rnd)
    /\ UNCHANGED <<storeVars, therapyCall, chatVars, speechVars, audioVars,
                   voiceVars, hookVars, interviewVars>>

\* sendMessage awaits generateAIResponse
CallGenerateAIResponse ==
    /\ therapyCall.fn = "generateAIResponse"
    /\ therapyResult = NoCall
    /\ therapyResult' = generateAIResponse(therapyCall.userMessage,
                            therapyCall.personality, therapyCall.backend,
                            therapyCall.rnd)
    /\ UNCHANGED <<storeVars, therapyCall, chatVars, speechVars, audioVars,
                   voiceVars, hookVars, interviewVars>>

\* The first version of the routes file, which has the response route, is
\* running on an empty store; one call with any of the inputs is to be served
InitAI ==
    /\ users = {[id |-> i, username |-> <<"user", i>>] : i \in RegisteredUsers}
    /\ userIdSeq = Cardinality(RegisteredUsers)
    /\ therapySessions = {}
    /\ therapyMessages = {}
    /\ userSettings = {}
    /\ sessionIdSeq = 0
    /\ messageIdSeq = 0
    /\ settingsIdSeq = 0
    /\ dbNow = 0
    /\ appNow = 0
    /\ variant = 1
    /\ settingsPending = <<>>
    /\ demoPending = {}
    /\ reqCount = 0
    /\ res = [status |-> 0]
    /\ returned = <<>>
    /\ therapyCall \in RouteCalls \cup OpenAICalls \cup ChatCalls
    /\ therapyResult = NoCall
    /\ InitChat(DEFAULT_SETTINGS)

NextAI ==
    \/ ServeTherapyResponse
    \/ CallGenerateTherapyResponse
    \/ CallGenerateAIResponse

SpecAI == InitAI /\ [][NextAI]_vars

-----------------------------------------------------------------------------
(* Claims about response generation *)

\* The crisis phrases and the safety response of the local LLM service
CrisisKeywords ==
    {<<"k", "i", "l", "l", " ", "m", "y", "s", "e", "l", "f">>,
     <<"s", "u", "i", "c", "i", "d", "e">>,
     <<"w", "a", "n", "t", " ", "t", "o", " ", "d", "i", "e">>,
     <<"e", "n", "d", " ", "i", "t", " ", "a", "l", "l">>,
     <<"n", "o", " ", "r", "e", "a", "s", "o", "n", " ", "t", "o", " ", "l", "i", "v", "e">>}

CrisisResponse ==
    "I'm very concerned about what you're sharing. Your life has value, and there are people who care about you. Please reach out to a crisis helpline immediately - you can call 988 (Suicide & Crisis Lifeline) or 911. You don't have to face this alone."

ContainsCrisisKeyword(userMessage) ==
    \E k \in CrisisKeywords : includes(userMessage, k)

\* C1: a response-generation request (the route or generateTherapyResponse)
\* whose user message contains a crisis keyword is answered with the fixed
\* safety response, whatever the personality and the provider's outcome, and
\* neither the provider is called nor a canned table used.
C1_CrisisMessageGetsSafetyResponse ==
    (/\ therapyResult /= NoCall
     /\ therapyCall.fn \in {"POST /api/therapy/response", "generateTherapyResponse"}
     /\ ContainsCrisisKeyword(therapyCall.userMessage))
    => /\ therapyResult.outcome = "returned"
       /\ therapyResult.value = String(CrisisResponse)
       /\ ~therapyResult.fetched
       /\ therapyResult.table = "none"

\* The provider call of a request fails: network error, non-OK status or
\* missing key (for generateAIResponse, the backend call throws)
ProviderFails(call) ==
    IF call.fn = "generateAIResponse" THEN call.backend.kind = "error"
    ELSE ~call.apiKey \/ call.llm.kind \in {"reject", "status"}

\* The strings of the canned table a function keeps for a personality
FallbackTable(fn, personality) ==
    IF fn = "POST /api/therapy/response" THEN Range(fallbackResponses[personality])
    ELSE IF fn = "generateAIResponse" THEN Range(chatFallbackResponses[personality])
    ELSE IF personality \in DOMAIN responses
         THEN UNION {Range(responses[personality][e]) : e \in DOMAIN responses[personality]}
         ELSE {}

RequestsPersonality(call) ==
    /\ call.personality /= undefined
    /\ call.personality.value \in Personalities

\* C2: when the provider call fails, response generation returns (throws
\* nothing) a non-empty string that is in the fallback table of the
\* requested personality, for each of the five personalities.
C2_FailureYieldsPersonalityFallback ==
    (/\ therapyResult /= NoCall
     /\ ProviderFails(therapyCall)
     /\ RequestsPersonality(therapyCall))
    => /\ therapyResult.outcome = "returned"
       /\ therapyResult.value.type = "string"
       /\ therapyResult.value.value /= ""
       /\ therapyResult.value.value
             \in FallbackTable(therapyCall.fn, therapyCall.personality.value)

\* The same for the route and for generateAIResponse alone, whose tables have
\* the five personalities
RouteAndChatFallbackMatchPersonality ==
    therapyCall.fn /= "generateTherapyResponse" => C2_FailureYieldsPersonalityFallback

\* With a provider failure generateTherapyResponse answers from the warm
\* table whatever personality is requested
OpenAIFallbackIsWarm ==
    (/\ therapyResult /= NoCall
     /\ therapyCall.fn = "generateTherapyResponse"
     /\ ProviderFails(therapyCall)
     /\ RequestsPersonality(therapyCall))
    => /\ therapyResult.outcome = "returned"
       /\ therapyResult.value.value \in FallbackTable(therapyCall.fn, "warm")

-----------------------------------------------------------------------------
(* TherapyChat: the chat turn *)

MaxMessages == 3
MaxAwaiting == 2
MaxTimers == 1

Whitespace == {" ", "\t", "\n"}

\* text.trim()
trim(s) ==
    LET kept == {i \in 1..Len(s) : s[i] \notin Whitespace}
    IN  IF kept = {} THEN <<>>
        ELSE SubSeq(s, CHOOSE i \in kept : \A j \in kept : i <= j,
                       CHOOSE i \in kept : \A j \in kept : i >= j)

\* The text of a message the user wrote
Text(s) == [type |-> "text", chars |-> s]

Remove(seq, i) == SubSeq(seq, 1, i - 1) \o SubSeq(seq, i + 1, Len(seq))

\* The effect that updates the mood after a render in which isListening or
\* isTyping, the speech synthesis state or the audio data changed
moodEffect(userSpeaking, isSpeaking, listening, typing) ==
    IF userSpeaking THEN "listening"
    ELSE IF isSpeaking THEN "speaking"
    ELSE IF listening THEN "listening"
    ELSE IF typing THEN "thinking"
    ELSE "idle"

\* 'speechSynthesis' in window: the browser has speech synthesis
isSupported == TRUE

\* The render of TherapyChat that follows the state updates of a handler.  It
\* reads isSpeaking from speechSynthesis.speaking; the mood effect runs when
\* one of its dependencies differs from what the last render read, and its
\* mood then replaces the one the handler set.
Render(set) ==
    LET isSpeaking == isSupported /\ speaking'
    IN  /\ renderedIsSpeaking' = isSpeaking
        /\ characterMood' =
               IF <<isSpeaking, isListening', isTyping', audioData'.isUserSpeaking,
                    isEnabled'>>
                  /= <<renderedIsSpeaking, isListening, isTyping,
                       audioData.isUserSpeaking, isEnabled>>
               THEN moodEffect(audioData'.isUserSpeaking /\ isEnabled', isSpeaking,
                               isListening', isTyping')
               ELSE set

\* sendMessage up to its await
sendMessage(text) ==
    IF trim(text) = <<>>
    THEN UNCHANGED <<messages, inputText, isTyping, characterMood, awaiting,
                     renderedIsSpeaking>>
    ELSE LET userMessage == [id |-> toString(clientNow), text |-> Text(trim(text)),
                             isUser |-> TRUE, timestamp |-> clientNow]
         IN  /\ Len(messages) < MaxMessages
             /\ Len(awaiting) < MaxAwaiting
             /\ messages' = Append(messages, userMessage)
             /\ inputText' = <<>>
             /\ isTyping' = TRUE
             /\ awaiting' = Append(awaiting,
                                   [text |-> trim(text), userMessage |-> userMessage,
                                    settings |-> settings])
             /\ Render("thinking")

InputTexts ==
    {<<"I", " ", "f", "e", "e", "l", " ", "a", "n", "x", "i", "o", "u", "s">>,
     <<" ", "o", "k", " ">>}

\* The user edits the input box, which is disabled while a reply is awaited
Type(text) ==
    /\ ~isTyping
    /\ text /= inputText
    /\ inputText' = text
    /\ UNCHANGED <<storeVars, aiVars, hookVars, interviewVars, synthVars, audioVars, voiceVars, messages,
                   isTyping, isListening, toast, settings, awaiting, transcriptTimers,
                   speakTimers, clientNow>>
    /\ Render(characterMood)

\* The form is submitted; the send button is disabled for blank input and
\* while a reply is awaited
handleSubmit ==
    /\ ~isTyping
    /\ trim(inputText) /= <<>>
    /\ UNCHANGED <<storeVars, aiVars, hookVars, interviewVars, synthVars, audioVars, voiceVars, isListening,
                   toast, settings, transcriptTimers, speakTimers, clientNow>>
    /\ sendMessage(inputText)

\* onTranscript of the voice input: the transcript is shown in the input box
\* and its one-second auto-send timer is started
onTranscript(transcript) ==
    /\ Len(transcriptTimers) < MaxTimers
    /\ inputText' = transcript
    /\ transcriptTimers' = Append(transcriptTimers, transcript)

\* The voice input delivers a transcript
handleVoiceTranscript(transcript) ==
    /\ onTranscript(transcript)
    /\ UNCHANGED <<storeVars, aiVars, hookVars, interviewVars, synthVars, audioVars, voiceVars, messages,
                   isTyping, isListening, toast, settings, awaiting, speakTimers,
                   clientNow>>
    /\ IF transcript /= inputText THEN Render(characterMood)
       ELSE UNCHANGED <<characterMood, renderedIsSpeaking>>

\* The oldest auto-send timer fires
TranscriptTimer ==
    /\ transcriptTimers /= <<>>
    /\ transcriptTimers' = Tail(transcriptTimers)
    /\ UNCHANGED <<storeVars, aiVars, hookVars, interviewVars, synthVars, audioVars, voiceVars, isListening,
                   toast, settings, speakTimers, clientNow>>
    /\ sendMessage(Head(transcriptTimers))

ChatErrorResponse ==
    "I'm here to listen and support you. Could you share a bit more about what's on your mind?"

\* sendMessage from its await on, were a failed backend call left unanswered
ResumeSendMessage_NoReplyOnError(i, backend, rnd) ==
    LET call == awaiting[i]
        r == generateAIResponse(call.text, String(call.settings.therapistPersonality),
                                backend, rnd)
        aiMessage == [id |-> toString(clientNow + 1), text |-> r.value,
                      isUser |-> FALSE, timestamp |-> clientNow]
        answered == backend.kind /= "error"
        speaks == answered /\ call.settings.voiceEnabled
    IN  /\ speaks => Len(speakTimers) < MaxTimers
        /\ awaiting' = Remove(awaiting, i)
        /\ messages' = IF answered THEN Append(messages, aiMessage) ELSE messages
        /\ isTyping' = IF answered THEN FALSE ELSE isTyping
        /\ speakTimers' = IF speaks THEN Append(speakTimers, r.value) ELSE speakTimers
        /\ toast' = IF answered THEN toast ELSE "Connection Issue"
        /\ UNCHANGED <<storeVars, aiVars, hookVars, interviewVars, synthVars, audioVars,
                       voiceVars, inputText, isListening, settings, transcriptTimers,
                       clientNow>>
        /\ Render(IF speaks THEN "speaking" ELSE IF answered THEN "idle" ELSE characterMood)

\* sendMessage from its await on: generateAIResponse settles for call i
ResumeSendMessage(i, backend, rnd) ==
    LET call == awaiting[i]
        r == generateAIResponse(call.text, String(call.settings.therapistPersonality),
                                backend, rnd)
        aiMessage == [id |-> toString(clientNow + 1),
                      text |-> IF r.outcome = "returned" THEN r.value
                               ELSE String(ChatErrorResponse),
                      isUser |-> FALSE, timestamp |-> clientNow]
        speaks == r.outcome = "returned" /\ call.settings.voiceEnabled
    IN  /\ speaks => Len(speakTimers) < MaxTimers
        /\ awaiting' = Remove(awaiting, i)
        /\ messages' = Append(messages, aiMessage)
        /\ isTyping' = FALSE
        /\ speakTimers' = IF speaks THEN Append(speakTimers, r.value) ELSE speakTimers
        /\ toast' = IF r.outcome = "returned" THEN toast ELSE "Connection Issue"
        /\ UNCHANGED <<storeVars, aiVars, hookVars, interviewVars, synthVars, audioVars, voiceVars, inputText,
                       isListening, settings, transcriptTimers, clientNow>>
        /\ Render(IF speaks THEN "speaking" ELSE "idle")

\* speechSynthesis.speak(utterance) in startSpeech
startSpeech(text) ==
    /\ speaking' = TRUE
    /\ utteranceRef' = text

\* speak with the browser's speech synthesis: an utterance being spoken is
\* cancelled and the new one starts 100 ms later
browserSpeak(text) ==
    IF speaking
    THEN /\ Len(startSpeechTimers) < MaxTimers
         /\ speaking' = FALSE
         /\ startSpeechTimers' = Append(startSpeechTimers, text)
         /\ UNCHANGED utteranceRef
    ELSE /\ startSpeech(text)
         /\ UNCHANGED startSpeechTimers

\* speak up to its await.  speechSettings holds voiceEnabled and useBackend.
speak(text, speechSettings) ==
    IF speechSettings.voiceEnabled = FALSE
    THEN UNCHANGED <<synthVars, toast, characterMood, renderedIsSpeaking>>
    ELSE IF speechSettings.useBackend
    THEN /\ Len(ttsCalls) < MaxTimers
         /\ ttsCalls' = Append(ttsCalls, text)
         /\ UNCHANGED <<speaking, utteranceRef, audioPlaying, startSpeechTimers, toast,
                        characterMood, renderedIsSpeaking>>
    ELSE /\ browserSpeak(text)
         /\ UNCHANGED <<ttsCalls, audioPlaying, toast, characterMood, renderedIsSpeaking>>

\* The oldest speak timer fires 500 ms after its reply and calls speak.  The
\* timer exists only when settings.voiceEnabled held.
SpeakTimer ==
    /\ speakTimers /= <<>>
    /\ speakTimers' = Tail(speakTimers)
    /\ UNCHANGED <<storeVars, aiVars, hookVars, interviewVars, audioVars, voiceVars, messages, inputText,
                   isTyping, isListening, settings, awaiting, transcriptTimers,
                   clientNow>>
    /\ speak(Head(speakTimers), [voiceEnabled |-> TRUE, useBackend |-> TRUE])

\* What apiService.textToSpeech gives: the URL of the audio, or an error
TtsOutcomes == {"audio_url", "error"}

\* speak from its await on, were a failed synthesis only notified
ResumeSpeak_NoFallback(tts) ==
    /\ ttsCalls /= <<>>
    /\ ttsCalls' = Tail(ttsCalls)
    /\ UNCHANGED <<storeVars, aiVars, hookVars, interviewVars, audioVars, voiceVars, messages, inputText,
                   isTyping, isListening, settings, awaiting, transcriptTimers,
                   speakTimers, clientNow>>
    /\ IF tts = "audio_url"
       THEN /\ audioPlaying < MaxTimers
            /\ audioPlaying' = audioPlaying + 1
            /\ UNCHANGED <<speaking, utteranceRef, startSpeechTimers, toast,
                           characterMood, renderedIsSpeaking>>
       ELSE /\ toast' = "TTS Error"
            /\ UNCHANGED <<audioPlaying, speaking, utteranceRef, startSpeechTimers>>
            /\ Render(characterMood)

\* speak from its await on: the audio of the backend is played, or after an
\* error a notification is shown and the browser's speech synthesis is used
ResumeSpeak(tts) ==
    /\ ttsCalls /= <<>>
    /\ ttsCalls' = Tail(ttsCalls)
    /\ UNCHANGED <<storeVars, aiVars, hookVars, interviewVars, audioVars, voiceVars, messages, inputText,
                   isTyping, isListening, settings, awaiting, transcriptTimers,
                   speakTimers, clientNow>>
    /\ IF tts = "audio_url"
       THEN /\ audioPlaying < MaxTimers
            /\ audioPlaying' = audioPlaying + 1
            /\ UNCHANGED <<speaking, utteranceRef, startSpeechTimers, toast,
                           characterMood, renderedIsSpeaking>>
       ELSE /\ toast' = "TTS Error"
            /\ UNCHANGED audioPlaying
            /\ IF isSupported
               THEN browserSpeak(Head(ttsCalls))
               ELSE UNCHANGED <<speaking, utteranceRef, startSpeechTimers>>
            /\ Render(characterMood)

\* The oldest 100 ms timer fires and the utterance starts
StartSpeechTimer ==
    /\ startSpeechTimers /= <<>>
    /\ startSpeechTimers' = Tail(startSpeechTimers)
    /\ startSpeech(Head(startSpeechTimers))
    /\ UNCHANGED <<storeVars, aiVars, hookVars, interviewVars, chatVars, audioVars, voiceVars,
                   renderedIsSpeaking, ttsCalls, audioPlaying>>

\* The utterance has been spoken: onend only forgets it
SpeechEnds ==
    /\ speaking
    /\ speaking' = FALSE
    /\ utteranceRef' = NoUtterance
    /\ UNCHANGED <<storeVars, aiVars, hookVars, interviewVars, chatVars, audioVars, voiceVars,
                   renderedIsSpeaking, ttsCalls, audioPlaying, startSpeechTimers>>

\* An Audio element has played its reply to the end
AudioEnds ==
    /\ audioPlaying > 0
    /\ audioPlaying' = audioPlaying - 1
    /\ UNCHANGED <<storeVars, aiVars, hookVars, interviewVars, chatVars, audioVars, voiceVars,
                   renderedIsSpeaking, ttsCalls, speaking, utteranceRef,
                   startSpeechTimers>>

\* stop of useSpeechSynthesis: speechSynthesis.cancel()
stop ==
    /\ speaking' = IF isSupported THEN FALSE ELSE speaking
    /\ UNCHANGED utteranceRef

\* The clear button, which is enabled also while a reply is awaited
clearChat ==
    /\ messages' = <<GreetingMessage(clientNow)>>
    /\ stop
    /\ toast' = "Chat Cleared"
    /\ UNCHANGED <<storeVars, aiVars, hookVars, interviewVars, audioVars, voiceVars, inputText, isTyping,
                   isListening, settings, awaiting, transcriptTimers, speakTimers,
                   clientNow, ttsCalls, audioPlaying, startSpeechTimers>>
    /\ Render(characterMood)

\* onStartListening and onStopListening of the voice input
onStartListening == isListening' = TRUE

onStopListening == isListening' = FALSE

\* The voice input starts or stops listening; its button is disabled while a
\* reply is awaited
SetIsListening(listening) ==
    /\ listening /= isListening
    /\ listening => ~isTyping
    /\ IF listening THEN onStartListening ELSE onStopListening
    /\ UNCHANGED <<storeVars, aiVars, hookVars, interviewVars, synthVars, audioVars, voiceVars, messages,
                   inputText, isTyping, toast, settings, awaiting, transcriptTimers,
                   speakTimers, clientNow>>
    /\ Render(characterMood)

TickClient ==
    /\ clientNow < MountTime + MaxTime
    /\ clientNow' = clientNow + 1
    /\ UNCHANGED <<storeVars, aiVars, hookVars, interviewVars, speechVars, audioVars, voiceVars, messages,
                   inputText, isTyping, characterMood, isListening, toast, settings,
                   awaiting, transcriptTimers, speakTimers>>

\* The backend's answers and the random numbers of a chat turn

\* The mood classifications a ChatResponse carries in character_mood
TurnMoods == {"idle", "happy", "concerned"}

TurnBackends ==
    {[kind |-> "error"]} \cup
    {[kind |-> "json", response |-> String("That sounds hard. What happened?"),
      character_mood |-> mood] : mood \in TurnMoods}

TurnRandoms == {0}

SettingsInputs ==
    {DEFAULT_SETTINGS,
     [voiceEnabled |-> FALSE, therapistPersonality |-> "gentle",
      audioVisualizationEnabled |-> FALSE]}

InitTherapyChat ==
    /\ users = {[id |-> i, username |-> <<"user", i>>] : i \in RegisteredUsers}
    /\ userIdSeq = Cardinality(RegisteredUsers)
    /\ therapySessions = {}
    /\ therapyMessages = {}
    /\ userSettings = {}
    /\ sessionIdSeq = 0
    /\ messageIdSeq = 0
    /\ settingsIdSeq = 0
    /\ dbNow = 0
    /\ appNow = 0
    /\ variant = 1
    /\ settingsPending = <<>>
    /\ demoPending = {}
    /\ reqCount = 0
    /\ res = [status |-> 0]
    /\ returned = <<>>
    /\ therapyCall = NoCall
    /\ therapyResult = NoCall
    /\ \E s \in SettingsInputs : InitChat(s)

\* The chat turn with the voice output switched off in the settings
InitSilentChat ==
    /\ InitTherapyChat
    /\ ~settings.voiceEnabled

NextChat ==
    \/ \E text \in InputTexts : Type(text)
    \/ handleSubmit
    \/ \E transcript \in InputTexts \cup {<<" ">>} : handleVoiceTranscript(transcript)
    \/ TranscriptTimer
    \/ \E i \in DOMAIN awaiting, backend \in TurnBackends, rnd \in TurnRandoms :
          ResumeSendMessage(i, backend, rnd)
    \/ clearChat
    \/ \E listening \in BOOLEAN : SetIsListening(listening)
    \/ TickClient

SpecChat == InitSilentChat /\ [][NextChat]_vars

\* The chat turn with typed messages and the replies spoken
NextSpeech ==
    \/ \E text \in InputTexts : Type(text)
    \/ handleSubmit
    \/ \E i \in DOMAIN awaiting, backend \in TurnBackends, rnd \in TurnRandoms :
          ResumeSendMessage(i, backend, rnd)
    \/ SpeakTimer
    \/ \E tts \in TtsOutcomes : ResumeSpeak(tts)
    \/ StartSpeechTimer
    \/ SpeechEnds
    \/ AudioEnds
    \/ clearChat
    \/ \E listening \in BOOLEAN : SetIsListening(listening)
    \/ TickClient

SpecSpeech == InitTherapyChat /\ [][NextSpeech]_vars

-----------------------------------------------------------------------------
(* Real-time audio visualization: useAudioVisualization, AudioStreamProcessor *)
(* and the effect of TherapyChat that starts and stops it with the setting    *)

MaxProcessors == 3

\* The volume levels (0-100) an animation frame can measure
AudioLevels == {0, 15, 16, 31, 61}

\* isSupported of useAudioVisualization: the browser has getUserMedia and
\* AudioContext
isAudioVisualizationSupported == TRUE

\* new AudioStreamProcessor() followed by setupAudioStream up to its await:
\* the audio context exists, the stream is still to be granted
NewProcessor == [audioContext |-> TRUE, source |-> FALSE, stream |-> FALSE,
                 isActive |-> FALSE]

\* AudioStreamProcessor.stop
processorStop(p) ==
    [p EXCEPT !.isActive = FALSE, !.source = FALSE, !.stream = FALSE,
              !.audioContext = FALSE]

\* setupAudioStream from its await on.  When the stream is granted it is kept;
\* createMediaStreamSource then throws if stop has discarded the audio context
\* meanwhile, and the catch returns false with the stream kept.
setupAudioStream(p, granted) ==
    IF ~granted THEN p
    ELSE IF p.audioContext
    THEN [p EXCEPT !.stream = TRUE, !.source = TRUE, !.isActive = TRUE]
    ELSE [p EXCEPT !.stream = TRUE]

getIntensity(audioLevel) ==
    IF audioLevel > 60 THEN "high" ELSE IF audioLevel > 30 THEN "medium" ELSE "low"

\* updateCharacterResponse with the threshold at the medium intensity
updateCharacterResponse_Threshold30(audioLevel) ==
    IF audioLevel > 30
    THEN [isUserSpeaking |-> TRUE, audioLevel |-> audioLevel,
          intensity |-> getIntensity(audioLevel)]
    ELSE [audioData EXCEPT !.isUserSpeaking = FALSE, !.audioLevel = audioLevel]

\* updateCharacterResponse and the listener of the event it dispatches
updateCharacterResponse(audioLevel) ==
    IF audioLevel > 15
    THEN [isUserSpeaking |-> TRUE, audioLevel |-> audioLevel,
          intensity |-> getIntensity(audioLevel)]
    ELSE [audioData EXCEPT !.isUserSpeaking = FALSE, !.audioLevel = audioLevel]

\* startAudioVisualization up to its await
startAudioVisualization ==
    IF ~isAudioVisualizationSupported
    THEN /\ toast' = "Audio Visualization Not Supported"
         /\ UNCHANGED audioVars
    ELSE /\ Len(processors) < MaxProcessors
         /\ processors' =
                Append(IF processorRef /= 0
                       THEN [processors EXCEPT ![processorRef] = processorStop(@)]
                       ELSE processors,
                       NewProcessor)
         /\ processorRef' = Len(processors) + 1
         /\ startCalls' = Append(startCalls, Len(processors) + 1)
         /\ UNCHANGED <<audioData, isEnabled, toast>>

\* stopAudioVisualization, on the processors given
stopAudioVisualization(procs) ==
    /\ processors' = IF processorRef /= 0
                     THEN [procs EXCEPT ![processorRef] = processorStop(@)]
                     ELSE procs
    /\ processorRef' = 0
    /\ isEnabled' = FALSE
    /\ audioData' = QuietAudioData

\* { ...localSettings, ...newSettings } for the fields of newSettings
Merge(localSettings, newSettings) ==
    [k \in DOMAIN localSettings |->
        IF k \in DOMAIN newSettings THEN newSettings[k] ELSE localSettings[k]]

\* The effect that syncs the visualization with its setting, in the render in
\* which the setting has become audioVisualizationEnabled
syncAudioVisualization(audioVisualizationEnabled) ==
    IF audioVisualizationEnabled = settings.audioVisualizationEnabled
    THEN UNCHANGED <<audioVars, toast>>
    ELSE IF audioVisualizationEnabled /\ ~isEnabled
    THEN startAudioVisualization
    ELSE IF ~audioVisualizationEnabled /\ isEnabled
    THEN stopAudioVisualization(processors) /\ UNCHANGED <<startCalls, toast>>
    ELSE UNCHANGED <<audioVars, toast>>

\* A control of the settings dialog, which stays usable while a reply is
\* awaited: updateSettings merges the one field into the settings of this
\* render and stores the result, the component renders again, and the effect
\* that syncs the visualization runs when its setting changed
handleSettingChange(key, value) ==
    LET updatedSettings == Merge(settings, key :> value)
    IN  /\ settings' = updatedSettings
        /\ localStorage' = JSONstringify(updatedSettings)
        /\ syncAudioVisualization(updatedSettings.audioVisualizationEnabled)
        /\ UNCHANGED <<storeVars, aiVars, pendingSettings, interviewVars, synthVars, voiceVars,
                       messages, inputText, isTyping, isListening, awaiting,
                       transcriptTimers, speakTimers, clientNow>>
        /\ Render(characterMood)

\* The visualization button, disabled while a reply is awaited
handleAudioVisualizationToggle ==
    /\ ~isTyping
    /\ handleSettingChange("audioVisualizationEnabled",
                           ~settings.audioVisualizationEnabled)

\* startAudioVisualization from its await on, for the k-th suspended call:
\* getUserMedia grants or denies the microphone.  On success isEnabled is set,
\* and the syncing effect stops the visualization at once when the setting has
\* been switched off meanwhile.
ResumeStartAudioVisualization(k, granted) ==
    LET p == startCalls[k]
        procs == [processors EXCEPT ![p] = setupAudioStream(@, granted)]
        success == granted /\ processors[p].audioContext
    IN  /\ startCalls' = Remove(startCalls, k)
        /\ IF success
           THEN /\ toast' = "Audio Visualization Started"
                /\ IF ~isEnabled /\ ~settings.audioVisualizationEnabled
                   THEN stopAudioVisualization(procs)
                   ELSE /\ processors' = procs
                        /\ isEnabled' = TRUE
                        /\ UNCHANGED <<processorRef, audioData>>
           ELSE /\ toast' = "Audio Access Error"
                /\ processors' = procs
                /\ UNCHANGED <<processorRef, isEnabled, audioData>>
        /\ UNCHANGED <<storeVars, aiVars, hookVars, interviewVars, synthVars, voiceVars, messages, inputText,
                       isTyping, isListening, settings, awaiting, transcriptTimers,
                       speakTimers, clientNow>>
        /\ Render(characterMood)

\* An animation frame of the capture loop of processor p measures the volume
AnimationFrame(p, audioLevel) ==
    /\ processors[p].isActive
    /\ audioData' = updateCharacterResponse(audioLevel)
    /\ UNCHANGED <<storeVars, aiVars, hookVars, interviewVars, synthVars, voiceVars, messages, inputText,
                   isTyping, isListening, toast, settings, awaiting, transcriptTimers,
                   speakTimers, clientNow, isEnabled, processors, processorRef,
                   startCalls>>
    /\ Render(characterMood)

\* TherapyChat with the visualization and the voice input's listening state
NextAudio ==
    \/ handleAudioVisualizationToggle
    \/ \E k \in DOMAIN startCalls, granted \in BOOLEAN :
          ResumeStartAudioVisualization(k, granted)
    \/ \E p \in DOMAIN processors, audioLevel \in AudioLevels :
          AnimationFrame(p, audioLevel)
    \/ \E listening \in BOOLEAN : SetIsListening(listening)

SpecAudio == InitTherapyChat /\ [][NextAudio]_vars

-----------------------------------------------------------------------------
(* The voice input: EnhancedVoiceInput with useWhisper, as TherapyChat mounts *)
(* it, and its BackendSpeechRecognition                                       *)

\* The recording stopRecording hands to processAudio: empty, or with audio in
\* it; "none" when the callback of a recorder stopped before is not called
Blobs == {"none", "empty", "audio"}

\* What apiService.transcribeAudio gives: an error, or the result with its text
Transcriptions ==
    {[kind |-> "error"],
     [kind |-> "json", text |-> undefined],
     [kind |-> "json", text |-> Text(<<>>)],
     [kind |-> "json", text |-> Text(<<" ", "o", "k", " ">>)]}

\* result.text || ''
textOrEmpty(text) == IF text.type = "text" THEN text.chars ELSE <<>>

\* The onError callback given to BackendSpeechRecognition: showError, and the
\* listening state is left
onError ==
    /\ toast' = "Speech Recognition Error"
    /\ voiceIsListening' = FALSE
    /\ onStopListening
    /\ UNCHANGED <<inputText, transcriptTimers>>

\* The onTranscription callback given to BackendSpeechRecognition
onTranscriptionComplete(text) ==
    /\ onTranscript(text)
    /\ voiceIsListening' = FALSE
    /\ onStopListening
    /\ UNCHANGED toast

\* The microphone button while not listening: startListening.  The button is
\* disabled while a reply is awaited.
startListening ==
    /\ ~isTyping
    /\ ~voiceIsListening
    /\ startingRecorder < MaxTimers
    /\ startingRecorder' = startingRecorder + 1
    /\ voiceIsListening' = TRUE
    /\ onStartListening
    /\ UNCHANGED <<storeVars, aiVars, hookVars, interviewVars, synthVars, audioVars, recorder, transcribing,
                   messages, inputText, isTyping, toast, settings, awaiting,
                   transcriptTimers, speakTimers, clientNow>>
    /\ Render(characterMood)

\* startRecording from its await on: the microphone is granted and the
\* recording starts, or it is denied
ResumeStartRecording(granted) ==
    /\ startingRecorder > 0
    /\ startingRecorder' = startingRecorder - 1
    /\ IF granted
       THEN /\ recorder' = "recording"
            /\ UNCHANGED <<voiceIsListening, isListening, toast, inputText,
                           transcriptTimers, characterMood, renderedIsSpeaking>>
       ELSE /\ onError
            /\ UNCHANGED recorder
    /\ UNCHANGED <<storeVars, aiVars, hookVars, interviewVars, synthVars, audioVars, transcribing, messages,
                   isTyping, settings, awaiting, speakTimers, clientNow>>
    /\ granted \/ Render(characterMood)

\* The microphone button while listening: stopListening.  Without a recorder
\* nothing happens; otherwise the recorder is stopped and its callback passes
\* the recording to processAudio, which refuses an empty one and else awaits
\* transcribeAudio.
stopListening(blob) ==
    /\ ~isTyping
    /\ voiceIsListening
    /\ recorder /= "none"
    /\ recorder = "recording" => blob /= "none"
    /\ recorder' = "stopped"
    /\ CASE blob = "none" ->
              UNCHANGED <<transcribing, voiceIsListening, isListening, toast, inputText,
                          transcriptTimers, characterMood, renderedIsSpeaking>>
         [] blob = "empty" ->
              /\ onError
              /\ UNCHANGED transcribing
         [] blob = "audio" ->
              /\ transcribing < MaxTimers
              /\ transcribing' = transcribing + 1
              /\ UNCHANGED <<voiceIsListening, isListening, toast, inputText,
                             transcriptTimers, characterMood, renderedIsSpeaking>>
    /\ UNCHANGED <<storeVars, aiVars, hookVars, interviewVars, synthVars, audioVars, startingRecorder, messages,
                   isTyping, settings, awaiting, speakTimers, clientNow>>
    /\ blob /= "empty" \/ Render(characterMood)

\* processAudio from its await on, with a fallback text in place of the error
ResumeProcessAudio_SilentFallback(transcription) ==
    /\ transcribing > 0
    /\ transcribing' = transcribing - 1
    /\ onTranscriptionComplete(IF transcription.kind = "json"
                               THEN textOrEmpty(transcription.text)
                               ELSE <<"h", "e", "l", "l", "o">>)
    /\ UNCHANGED <<storeVars, aiVars, hookVars, interviewVars, synthVars, audioVars, startingRecorder, recorder,
                   messages, isTyping, settings, awaiting, speakTimers, clientNow>>
    /\ Render(characterMood)

\* processAudio from its await on: transcribeAudio settles
ResumeProcessAudio(transcription) ==
    /\ transcribing > 0
    /\ transcribing' = transcribing - 1
    /\ IF transcription.kind = "json"
       THEN onTranscriptionComplete(textOrEmpty(transcription.text))
       ELSE onError
    /\ UNCHANGED <<storeVars, aiVars, hookVars, interviewVars, synthVars, audioVars, startingRecorder, recorder,
                   messages, isTyping, settings, awaiting, speakTimers, clientNow>>
    /\ Render(characterMood)

\* TherapyChat used by voice, with the voice output off
NextVoice ==
    \/ startListening
    \/ \E granted \in BOOLEAN : ResumeStartRecording(granted)
    \/ \E blob \in Blobs : stopListening(blob)
    \/ \E transcription \in Transcriptions : ResumeProcessAudio(transcription)
    \/ TranscriptTimer
    \/ \E i \in DOMAIN awaiting, backend \in TurnBackends, rnd \in TurnRandoms :
          ResumeSendMessage(i, backend, rnd)

SpecVoice == InitSilentChat /\ [][NextVoice]_vars

-----------------------------------------------------------------------------
(* Claims about the chat turn *)

\* C4: the steps of a chat turn are sequential: when response generation is
\* invoked the user message is already the last of the list, an AI message is
\* appended only by a step in which a generation returns, and when the turn
\* ends the list holds the turn's user message and, after it, the AI message.
C4_TurnListsUserMessageThenAIMessage ==
    [][/\ Len(awaiting') > Len(awaiting)
          => messages'[Len(messages')] = awaiting'[Len(awaiting')].userMessage
       /\ (Len(messages') > Len(messages) /\ ~messages'[Len(messages')].isUser)
          => Len(awaiting') < Len(awaiting)
       /\ \A i \in DOMAIN awaiting :
             awaiting' = Remove(awaiting, i)
             => /\ ~messages'[Len(messages')].isUser
                /\ \E j \in 1..(Len(messages') - 1) :
                      messages'[j] = awaiting[i].userMessage]_vars

\* The order of the steps alone: the user message is recorded when the
\* generation is invoked, and an AI message only when one returns
ChatTurnIsSequential ==
    [][/\ Len(awaiting') > Len(awaiting)
          => messages'[Len(messages')] = awaiting'[Len(awaiting')].userMessage
       /\ (Len(messages') > Len(messages) /\ ~messages'[Len(messages')].isUser)
          => Len(awaiting') < Len(awaiting)]_vars

\* A turn whose user message is still listed when the reply arrives ends with
\* the user message before the AI message
TurnListsBothWhenUserMessageIsListed ==
    [][\A i \in DOMAIN awaiting :
          (/\ awaiting' = Remove(awaiting, i)
           /\ \E j \in DOMAIN messages : messages[j] = awaiting[i].userMessage)
          => /\ ~messages'[Len(messages')].isUser
             /\ \E j \in 1..(Len(messages') - 1) :
                   messages'[j] = awaiting[i].userMessage]_vars

-----------------------------------------------------------------------------
(* Claims about errors of the session, message and settings routes *)

\* C11: an update that names an id that does not exist (a rename of an unknown
\* session, a PATCH of the settings of a user without a settings row) is
\* answered with the NotFound status 404, not with success, and leaves the
\* store unchanged.
C11_UpdateOfUnknownIdIsNotFound ==
    [][/\ \A sid \in SessionIds : \A body \in {[title |-> "Renamed"], EmptyBody} :
             (getSession(sid) = {} /\ PatchSessionTitle(sid, body))
             => (res'.status = 404 /\ therapySessions' = therapySessions)
       /\ \A u \in RequestUsers : \A body \in PatchSettingsBodies :
             (getUserSettings(u) = {} /\ PatchSettings(u, body))
             => (res'.status = 404 /\ userSettings' = userSettings)]_vars

\* The half that holds: such an update changes no row
UpdateOfUnknownIdChangesNothing ==
    [][/\ \A sid \in SessionIds : \A body \in {[title |-> "Renamed"], EmptyBody} :
             (getSession(sid) = {} /\ PatchSessionTitle(sid, body))
             => therapySessions' = therapySessions
       /\ \A u \in RequestUsers : \A body \in PatchSettingsBodies :
             (getUserSettings(u) = {} /\ PatchSettings(u, body))
             => userSettings' = userSettings]_vars

\* A body that lacks a field the insert schema requires
LacksRequiredSessionField(body) == ~Has(body, "title")

LacksRequiredMessageField(body) ==
    ~Has(body, "sessionId") \/ ~Has(body, "content") \/ ~Has(body, "isUser")

\* C12: POST /api/sessions or POST /api/messages with a body that lacks a
\* required field (title; sessionId, content or isUser) is answered with
\* status 400 and creates no session and no message.
C12_MissingFieldIs400AndCreatesNothing ==
    [][/\ \A body \in SessionBodies :
             (LacksRequiredSessionField(body) /\ PostSessions(body))
             => /\ res'.status = 400
                /\ therapySessions' = therapySessions
                /\ therapyMessages' = therapyMessages
       /\ \A body \in MessageBodies :
             (LacksRequiredMessageField(body) /\ PostMessages(body))
             => /\ res'.status = 400
                /\ therapySessions' = therapySessions
                /\ therapyMessages' = therapyMessages]_vars

\* C12 witness: a message body was refused by validation (no id was drawn from
\* the serial) although session 1, which the bodies name, exists
C12_Witness ==
    /\ res = [status |-> 400, error |-> "Invalid message data"]
    /\ getSession(1) # {}
    /\ messageIdSeq = Cardinality(therapyMessages)
    /\ \E body \in MessageBodies : LacksRequiredMessageField(body)

-----------------------------------------------------------------------------
(* Claims about the sessions of a user *)

C14_UpdatedAtNotBeforeCreatedAt ==
    \A s \in therapySessions : s.updatedAt >= s.createdAt

\* Until a session is renamed its two timestamps are the same now()
UnrenamedSessionHasEqualTimestamps ==
    [][\A s \in therapySessions' :
          s \notin therapySessions
          => \/ s.updatedAt = s.createdAt
             \/ \E o \in therapySessions : o.id = s.id /\ s.updatedAt = appNow]_vars

-----------------------------------------------------------------------------
(* Claims about the character mood, checked under SpecSpeech *)

\* C15: submitting a non-empty message sets the character mood to thinking,
\* the mood stays thinking while the reply is awaited, and when the reply is
\* received the mood becomes the mood classification of the turn (idle, happy
\* or concerned); the reply of a turn with the voice output off is considered,
\* since with it on the reply is spoken.
C15_ThinkingUntilReplyThenClassifiedMood ==
    [][/\ Len(awaiting') > Len(awaiting) => characterMood' = "thinking"
       /\ (awaiting /= <<>> /\ awaiting' = awaiting) => characterMood' = "thinking"
       /\ \A i \in DOMAIN awaiting, backend \in TurnBackends, rnd \in TurnRandoms :
             (/\ backend.kind = "json"
              /\ ~awaiting[i].settings.voiceEnabled
              /\ ResumeSendMessage(i, backend, rnd))
             => characterMood' = backend.character_mood]_vars

\* What the code does instead: the mood is always the one the mood effect
\* computed at the last render, so that no handler's setCharacterMood lasts and
\* the mood is never happy or concerned
MoodIsTheMoodEffectsOfLastRender ==
    characterMood = moodEffect(audioData.isUserSpeaking /\ isEnabled,
                               renderedIsSpeaking, isListening, isTyping)

\* With the microphone off and no utterance being spoken, the mood is thinking
\* from the submission until the reply, and idle after the reply
QuietTurnIsThinkingThenIdle ==
    [][(~isListening' /\ ~renderedIsSpeaking')
       => characterMood' = IF awaiting' /= <<>> THEN "thinking" ELSE "idle"]_vars

\* C16: with the voice output enabled the character mood is speaking for as
\* long as the audio of a reply is playing (the backend's audio or the
\* browser's utterance), and is idle when the playback has ended; the
\* microphone is off and no reply is awaited.
C16_SpeakingWhilePlayingThenIdle ==
    [][(~isListening' /\ awaiting' = <<>>)
       => /\ (audioPlaying' > 0 \/ speaking') => characterMood' = "speaking"
          /\ (/\ audioPlaying > 0 \/ speaking
              /\ audioPlaying' = 0 /\ ~speaking')
             => characterMood' = "idle"]_vars

\* The mood is speaking only after a render that read speechSynthesis.speaking
\* as true, which the audio of the backend never makes it
SpeakingMoodOnlyForBrowserUtterance ==
    characterMood = "speaking" => renderedIsSpeaking

\* C18: clearChat clears the speech that is in progress or pending - the
\* utterance being spoken, the audio being played, and a reply whose speech is
\* scheduled or requested but has not started - and leaves the mood idle.
C18_ClearChatClearsSpeechAndIdles ==
    [][clearChat
       => /\ ~speaking' /\ audioPlaying' = 0
          /\ speakTimers' = <<>> /\ ttsCalls' = <<>> /\ startSpeechTimers' = <<>>
          /\ characterMood' = "idle"]_vars

\* What clearChat does clear: the utterance the browser is speaking
ClearChatCancelsBrowserUtterance ==
    [][clearChat => ~speaking']_vars

\* With the microphone off and no reply awaited, the mood is idle after
\* clearChat
ClearChatIdlesWhenQuiet ==
    [][(clearChat /\ ~isListening /\ awaiting = <<>>) => characterMood' = "idle"]_vars

-----------------------------------------------------------------------------
(* Claims about the audio visualization, checked under SpecAudio *)

\* C17, as stated: while the voice input is capturing and the visualization is
\* off the mood is listening; when the visualization is enabled the mood
\* follows the measured level alone, listening above 15 and idle otherwise.
C17_MoodFollowsLevelAlone ==
    /\ (isListening /\ ~isEnabled) => characterMood = "listening"
    /\ isEnabled
       => characterMood = IF audioData.audioLevel > 15 THEN "listening" ELSE "idle"

\* C17, amended: with no reply awaited and nothing being spoken, the mood is
\* listening while the visualization is enabled and the measured level is
\* above 15, and otherwise listening while the voice input is capturing and
\* idle when it is not.
C17_MoodFollowsLevelThenCapture ==
    characterMood = IF isEnabled /\ audioData.audioLevel > 15 THEN "listening"
                    ELSE IF isListening THEN "listening"
                    ELSE "idle"

\* The visualization is enabled and measures a level at the threshold while
\* the voice input is capturing
C17_Witness ==
    /\ isEnabled
    /\ isListening
    /\ audioData.audioLevel = 15
    /\ characterMood = "listening"

\* C19: the microphone is held by at most one AudioStreamProcessor, and when
\* the visualization has been stopped (no current processor) no processor
\* holds a stream or runs its capture loop.
C19_DeviceHeldExclusivelyAndReleased ==
    LET holders == {p \in DOMAIN processors : processors[p].stream}
    IN  /\ Cardinality(holders) <= 1
        /\ processorRef = 0
           => \A p \in DOMAIN processors :
                 ~processors[p].stream /\ ~processors[p].isActive

\* What holds: a processor whose setup completed holds the stream and runs its
\* loop only while it is the current one, so that starts and stops that do not
\* overlap a pending start hold the device exclusively and release it
CompletedProcessorHoldsOnlyWhileCurrent ==
    \A p \in DOMAIN processors :
       (processors[p].isActive \/ (processors[p].stream /\ processors[p].audioContext))
       => /\ p = processorRef
          /\ processors[p].stream /\ processors[p].isActive

-----------------------------------------------------------------------------
(* Claims about the voice input, checked under SpecVoice *)

\* C20: when the transcription of a recording fails - transcribeAudio rejects,
\* or the recording is empty - the error is shown to the user, onTranscript is
\* not invoked (the input box and the auto-send timers stay as they are, so no
\* text is submitted in place of the transcript), and the listening state of
\* the voice input and of the chat is false.
C20_FailedTranscriptionIsShownNotReplaced ==
    [][(\/ ResumeProcessAudio([kind |-> "error"])
        \/ stopListening("empty"))
       => /\ toast' = "Speech Recognition Error"
          /\ inputText' = inputText
          /\ transcriptTimers' = transcriptTimers
          /\ messages' = messages
          /\ ~voiceIsListening'
          /\ ~isListening']_vars

\* A recording was made and stopped, its transcription failed, and the error
\* is shown with nothing put in the input box
C20_Witness ==
    /\ recorder = "stopped"
    /\ transcribing = 0
    /\ toast = "Speech Recognition Error"
    /\ ~voiceIsListening
    /\ inputText = <<>>
    /\ transcriptTimers = <<>>

-----------------------------------------------------------------------------
(* Claims about the speech of a reply *)

-----------------------------------------------------------------------------
(* Typed chat turns whose replies are spoken                                 *)

ReplyTexts == {<<"I", " ", "f", "e", "e", "l", " ", "a", "n", "x", "i", "o", "u", "s">>}

InitReply ==
    /\ InitTherapyChat
    /\ settings = DEFAULT_SETTINGS

NextReply ==
    \/ \E text \in ReplyTexts : Type(text)
    \/ handleSubmit
    \/ \E i \in DOMAIN awaiting, backend \in TurnBackends, rnd \in TurnRandoms :
          ResumeSendMessage(i, backend, rnd)
    \/ SpeakTimer
    \/ \E tts \in TtsOutcomes : ResumeSpeak(tts)
    \/ StartSpeechTimer
    \/ SpeechEnds
    \/ AudioEnds
    \/ clearChat

SpecReply == InitReply /\ [][NextReply]_vars

\* One typed chat turn with the voice switch of the settings dialog
NextVoiceSwitch ==
    \/ \E text \in InputTexts : Type(text)
    \/ handleSubmit
    \/ \E i \in DOMAIN awaiting, backend \in TurnBackends, rnd \in TurnRandoms :
          ResumeSendMessage(i, backend, rnd)
    \/ handleSettingChange("voiceEnabled", ~settings.voiceEnabled)
    \/ SpeakTimer
    \/ \E tts \in TtsOutcomes : ResumeSpeak(tts)
    \/ SpeechEnds
    \/ AudioEnds

SpecVoiceSwitch == InitReply /\ [][NextVoiceSwitch]_vars

\* C30: a reply that is received while settings.voiceEnabled is false starts
\* no speech output: no speak call is scheduled for it, whether the voice was
\* off when the message was sent or was switched off while the reply was
\* awaited.
C30_NoSpeechWhileVoiceDisabled ==
    [][\A i \in DOMAIN awaiting, backend \in TurnBackends, rnd \in TurnRandoms :
          (~settings.voiceEnabled /\ ResumeSendMessage(i, backend, rnd))
             => speakTimers' = speakTimers]_vars

\* A reply schedules its speech exactly when it came from generateAIResponse
\* and the voice was enabled in the settings sendMessage was created with
SpeechFollowsSettingsOfTheSend ==
    [][\A i \in DOMAIN awaiting, backend \in TurnBackends, rnd \in TurnRandoms :
          ResumeSendMessage(i, backend, rnd)
             => (speakTimers' /= speakTimers
                    <=> /\ awaiting[i].settings.voiceEnabled
                        /\ messages'[Len(messages')].text /= String(ChatErrorResponse))]_vars

\* Every speak call scheduled by a reply reaches the speech synthesis of the
\* backend
ScheduledSpeechIsSynthesized ==
    [][(speakTimers /= <<>> /\ SpeakTimer)
          => ttsCalls' = Append(ttsCalls, Head(speakTimers))]_vars

-----------------------------------------------------------------------------
(* Claims about overlapping chat turns                                       *)

\* C24: at most one chat turn is in flight: sendMessage takes up a message
\* only while isTyping is false and no other call is awaiting its reply,
\* whether the message was typed or is a voice transcript sent by its timer.
C24_SendMessageOnlyWhileNotTyping ==
    [][Len(awaiting') > Len(awaiting) => (~isTyping /\ awaiting = <<>>)]_vars

\* Typed submissions alone never overlap: the form is disabled while a reply
\* is awaited
TypedTurnsNeverOverlap == Len(awaiting) <= 1

\* C26: a conversation that holds only the greeting, at the start or after
\* clearChat, stays so until a user message is sent: the first message added
\* to it is a user message, never the reply to a turn sent before the clear.
C26_ClearedChatGrowsByUserMessage ==
    [][(Len(messages) = 1 /\ Len(messages') > 1)
          => messages'[Len(messages')].isUser]_vars

\* clearChat leaves the calls that await their reply as they are
ClearChatKeepsAwaitedCalls ==
    [][clearChat => (awaiting' = awaiting /\ isTyping' = isTyping)]_vars

-----------------------------------------------------------------------------
(* Claims about the personality of a fallback reply                          *)

\* The personality whose table a fallback reply is to come from: the one
\* requested when it is one of the five, otherwise warm
TableOfRequest(call) ==
    IF RequestsPersonality(call) THEN call.personality.value ELSE "warm"

\* The request is answered by fallback selection: its body could be read, the
\* provider call fails, and the crisis check that the route and
\* generateTherapyResponse make first did not answer it
FallbackIsSelected(call) ==
    /\ ProviderFails(call)
    /\ "parsed" \in DOMAIN call => call.parsed
    /\ call.fn /= "generateAIResponse" => ~ContainsCrisisKeyword(call.userMessage)

\* C22: when the provider call fails the reply is returned without an error
\* and is a member of the table of the requested personality when that is one
\* of the five, and of the warm table for every other personality value.
C22_FallbackIsOwnTableOrWarm ==
    (/\ therapyResult /= NoCall
     /\ FallbackIsSelected(therapyCall))
    => /\ therapyResult.outcome = "returned"
       /\ therapyResult.value.type = "string"
       /\ therapyResult.value.value
             \in FallbackTable(therapyCall.fn, TableOfRequest(therapyCall))

\* The same for the route and generateAIResponse, for every personality value
\* that is not the name of a property every object inherits
OwnTableOrWarmBarInheritedNames ==
    (/\ therapyCall.fn /= "generateTherapyResponse"
     /\ therapyCall.personality /= String("constructor"))
    => C22_FallbackIsOwnTableOrWarm

-----------------------------------------------------------------------------
(* Claims about concurrent requests for the settings of one user             *)

\* C27: every GET /api/settings/:userId that found no row, also one that runs
\* concurrently with another for the same user, answers with the settings of
\* the user, of which exactly one row exists afterwards; none answers with an
\* error.
C27_ConcurrentGetsBothAnswerSettings ==
    [][\A i \in DOMAIN settingsPending :
          (settingsPending[i] \in RegisteredUsers /\ GetSettingsCreate(i))
          => /\ res'.status = 200
             /\ res'.json.userId = settingsPending[i]
             /\ {s \in userSettings' : s.userId = settingsPending[i]} = {res'.json}]_vars

\* With the second version of the routes, a handler whose insert runs while
\* the user still has no row answers with the one row it created
SecondVersionCreateWithoutRowAnswersRow ==
    [][\A i \in DOMAIN settingsPending :
          (/\ variant = 2
           /\ settingsPending[i] \in RegisteredUsers
           /\ getUserSettings(settingsPending[i]) = {}
           /\ GetSettingsCreate(i))
          => /\ res'.status = 200
             /\ {s \in userSettings' : s.userId = settingsPending[i]} = {res'.json}]_vars

\* With the second version, a handler whose insert runs after another request
\* created the row is refused by the unique user_id and answers 500
SecondVersionCreateAfterRowFails ==
    [][\A i \in DOMAIN settingsPending :
          (/\ variant = 2
           /\ getUserSettings(settingsPending[i]) # {}
           /\ GetSettingsCreate(i))
          => /\ res'.status = 500
             /\ userSettings' = userSettings]_vars

-----------------------------------------------------------------------------
(* useSettings: the hook alone, with calls issued before the next render     *)

\* The localSettings state of the hook: the value the next render will read
localSettings == IF pendingSettings = NoUpdate THEN settings ELSE pendingSettings

\* updateSettings of the last render: newSettings is merged into the
\* localSettings that render read, and the result is set and stored
updateSettings(newSettings) ==
    LET updatedSettings == Merge(settings, newSettings)
    IN  /\ pendingSettings' = updatedSettings
        /\ localStorage' = JSONstringify(updatedSettings)
        /\ UNCHANGED <<storeVars, aiVars, chatVars, speechVars, audioVars, voiceVars,
                       interviewVars>>

\* resetSettings
resetSettings ==
    /\ pendingSettings' = DEFAULT_SETTINGS
    /\ localStorage' = JSONstringify(DEFAULT_SETTINGS)
    /\ UNCHANGED <<storeVars, aiVars, chatVars, speechVars, audioVars, voiceVars,
                       interviewVars>>

\* The component renders again and reads the state that was set
RenderSettings ==
    /\ pendingSettings /= NoUpdate
    /\ settings' = pendingSettings
    /\ pendingSettings' = NoUpdate
    /\ syncAudioVisualization(pendingSettings.audioVisualizationEnabled)
    /\ UNCHANGED <<storeVars, aiVars, synthVars, voiceVars, interviewVars, localStorage, messages,
                   inputText, isTyping, isListening, awaiting, transcriptTimers,
                   speakTimers, clientNow>>
    /\ Render(characterMood)

\* The partial settings the callers pass: one field of the dialog, or two
NewSettingsInputs ==
    {[voiceEnabled |-> b] : b \in BOOLEAN}
    \cup {[therapistPersonality |-> p] : p \in Personalities}
    \cup {[audioVisualizationEnabled |-> b] : b \in BOOLEAN}
    \cup {[voiceEnabled |-> FALSE, therapistPersonality |-> "analytical"]}

NextHook ==
    \/ \E newSettings \in NewSettingsInputs : updateSettings(newSettings)
    \/ resetSettings
    \/ RenderSettings

SpecHook == InitTherapyChat /\ [][NextHook]_vars

\* C28: after every updateSettings call the item stored under
\* 'therapy-settings' is the in-memory settings, in which every field the call
\* supplied has the supplied value and every other field the value it had
\* before the call, also when earlier calls have not been rendered yet.
C28_UpdateStoresAndKeepsOtherFields ==
    [][\A newSettings \in NewSettingsInputs :
          updateSettings(newSettings)
          => /\ JSONparse(localStorage') = localSettings'
             /\ localSettings' = Merge(localSettings, newSettings)]_vars

\* The stored item is the in-memory settings after every updateSettings and
\* resetSettings call
StoredItemIsInMemorySettings ==
    [][(resetSettings \/ \E newSettings \in NewSettingsInputs : updateSettings(newSettings))
          => JSONparse(localStorage') = localSettings']_vars

\* A call issued after the previous one was rendered keeps the other fields
UpdateAfterRenderKeepsOtherFields ==
    [][\A newSettings \in NewSettingsInputs :
          (pendingSettings = NoUpdate /\ updateSettings(newSettings))
          => localSettings' = Merge(localSettings, newSettings)]_vars

-----------------------------------------------------------------------------
(* Claims about the outcome of a recording                                   *)

\* A recording ends: onTranscript is called, or an error is surfaced
RecordingOutcome ==
    \/ \E transcription \in Transcriptions : ResumeProcessAudio(transcription)
    \/ stopListening("empty")
    \/ ResumeStartRecording(FALSE)

\* C29: a recording has exactly one outcome: an onTranscript call or a
\* surfaced error happens only while the voice input is listening, so that
\* onStopListening answers one onStartListening, and after it the input is not
\* listening and no recording, microphone request or transcription of it is
\* left.
C29_RecordingEndsWithOneOutcome ==
    [][RecordingOutcome
          => /\ voiceIsListening /\ isListening
             /\ ~voiceIsListening' /\ ~isListening'
             /\ recorder' /= "recording"
             /\ startingRecorder' = 0
             /\ transcribing' = 0]_vars

\* Every outcome leaves the voice input and the chat not listening
OutcomeEndsListening ==
    [][RecordingOutcome => (~voiceIsListening' /\ ~isListening')]_vars

-----------------------------------------------------------------------------
(* PsychologyInterview: the structured interview and its clinical report     *)

MaxInterviewMessages == 5
MaxSessions == 2
MaxQuestions == 2
MaxReportCalls == 1

\* The frame of every interview handler: the store, the chat and its hooks
InterviewFrame ==
    UNCHANGED <<storeVars, aiVars, speechVars, audioVars, voiceVars, hookVars, messages,
                inputText, isTyping, characterMood, isListening, settings, awaiting,
                transcriptTimers, speakTimers, clientNow>>

\* The answer form is rendered
AnswerFormShown == interviewState.questionCount > 0 /\ ~interviewState.isComplete

InterviewTexts == {<<" ", "o", "k", " ">>, <<" ">>}

\* The user edits the answer box, which is disabled while a request is awaited
interviewType(text) ==
    /\ AnswerFormShown
    /\ ~isLoading
    /\ text /= interviewInputText
    /\ interviewInputText' = text
    /\ UNCHANGED <<interviewMessages, interviewState, isLoading, interviewCalls,
                   reportCalls, reportContent, toast>>
    /\ InterviewFrame

\* The Start Interview button, shown while questionCount is 0 and disabled
\* while a request is awaited: startInterview up to its fetch
startInterview ==
    /\ interviewState.questionCount = 0
    /\ ~isLoading
    /\ isLoading' = TRUE
    /\ interviewCalls' = Append(interviewCalls, [fn |-> "start"])
    /\ UNCHANGED <<interviewMessages, interviewState, interviewInputText, reportCalls,
                   reportContent, toast>>
    /\ InterviewFrame

\* What POST /api/psychology/start-interview gives: a failure (rejection,
\* non-OK status, unreadable body) or the session and its question count
StartResponses ==
    {[ok |-> FALSE]}
    \cup {[ok |-> TRUE, session_id |-> s, question_count |-> q] :
            s \in NoSessionId..MaxSessions, q \in 0..1}

\* startInterview from its await on, for the i-th suspended call
ResumeStartInterview(i, data) ==
    /\ interviewCalls[i].fn = "start"
    /\ interviewCalls' = Remove(interviewCalls, i)
    /\ IF data.ok
       THEN /\ interviewState' = [interviewState EXCEPT !.sessionId = data.session_id,
                                                        !.questionCount = data.question_count]
            /\ interviewMessages' = <<[text |-> "question", isUser |-> FALSE]>>
            /\ toast' = "Interview Started"
       ELSE /\ toast' = "Error"
            /\ UNCHANGED <<interviewState, interviewMessages>>
    /\ isLoading' = FALSE
    /\ UNCHANGED <<interviewInputText, reportCalls, reportContent>>
    /\ InterviewFrame

\* generateReport up to its fetch, in the render whose interviewState has
\* sessionId
generateReport(sessionId) ==
    IF sessionId = NoSessionId
    THEN UNCHANGED reportCalls
    ELSE /\ Len(reportCalls) < MaxReportCalls
         /\ reportCalls' = Append(reportCalls, sessionId)

\* continueInterview up to its fetch
continueInterview(userMessage) ==
    IF interviewState.sessionId = NoSessionId
    THEN UNCHANGED <<isLoading, interviewCalls>>
    ELSE /\ isLoading' = TRUE
         /\ interviewCalls' = Append(interviewCalls,
                                     [fn |-> "continue", userMessage |-> userMessage,
                                      sessionId |-> interviewState.sessionId])

\* The answer form is submitted
interviewHandleSubmit ==
    /\ AnswerFormShown
    /\ trim(interviewInputText) /= <<>>
    /\ ~isLoading
    /\ Len(interviewMessages) + 2 <= MaxInterviewMessages
    /\ continueInterview(trim(interviewInputText))
    /\ interviewInputText' = <<>>
    /\ UNCHANGED <<interviewMessages, interviewState, reportCalls, reportContent, toast>>
    /\ InterviewFrame

\* What POST /api/psychology/continue-interview gives
ContinueResponses ==
    {[ok |-> FALSE]}
    \cup {[ok |-> TRUE, question_count |-> q, is_complete |-> c] :
            q \in 1..MaxQuestions, c \in BOOLEAN}

\* continueInterview from its await on, were the report requested after every
\* answer
ResumeContinueInterview_ReportEveryAnswer(i, data) ==
    LET call == interviewCalls[i]
    IN  /\ call.fn = "continue"
        /\ interviewCalls' = Remove(interviewCalls, i)
        /\ IF data.ok
           THEN /\ interviewMessages' =
                      interviewMessages \o <<[text |-> call.userMessage, isUser |-> TRUE],
                                             [text |-> "question", isUser |-> FALSE]>>
                /\ interviewState' = [interviewState EXCEPT
                                         !.questionCount = data.question_count,
                                         !.isComplete = data.is_complete]
                /\ generateReport(call.sessionId)
                /\ UNCHANGED toast
           ELSE /\ toast' = "Error"
                /\ UNCHANGED <<interviewMessages, interviewState, reportCalls>>
        /\ isLoading' = FALSE
        /\ UNCHANGED <<interviewInputText, reportContent>>
        /\ InterviewFrame

\* continueInterview from its await on, for the i-th suspended call: the
\* answer and the next question are listed, the count and the completion flag
\* are taken from the response, and a complete interview requests its report
ResumeContinueInterview(i, data) ==
    LET call == interviewCalls[i]
    IN  /\ call.fn = "continue"
        /\ interviewCalls' = Remove(interviewCalls, i)
        /\ IF data.ok
           THEN /\ interviewMessages' =
                      interviewMessages \o <<[text |-> call.userMessage, isUser |-> TRUE],
                                             [text |-> "question", isUser |-> FALSE]>>
                /\ interviewState' = [interviewState EXCEPT
                                         !.questionCount = data.question_count,
                                         !.isComplete = data.is_complete]
                /\ IF data.is_complete THEN generateReport(call.sessionId)
                   ELSE UNCHANGED reportCalls
                /\ UNCHANGED toast
           ELSE /\ toast' = "Error"
                /\ UNCHANGED <<interviewMessages, interviewState, reportCalls>>
        /\ isLoading' = FALSE
        /\ UNCHANGED <<interviewInputText, reportContent>>
        /\ InterviewFrame

\* generateReport from its await on: the report of the session is shown
ResumeGenerateReport(ok) ==
    /\ reportCalls /= <<>>
    /\ reportCalls' = Tail(reportCalls)
    /\ IF ok
       THEN reportContent' = Head(reportCalls) /\ toast' = "Report Generated"
       ELSE UNCHANGED reportContent /\ toast' = "Error"
    /\ UNCHANGED <<interviewMessages, interviewState, isLoading, interviewInputText,
                   interviewCalls>>
    /\ InterviewFrame

\* The Reset Interview button, shown while questionCount is positive
resetInterview ==
    /\ interviewState.questionCount > 0
    /\ interviewMessages' = <<>>
    /\ interviewState' = NewInterviewState
    /\ reportContent' = NoSessionId
    /\ UNCHANGED <<isLoading, interviewInputText, interviewCalls, reportCalls, toast>>
    /\ InterviewFrame

NextInterview ==
    \/ startInterview
    \/ \E i \in DOMAIN interviewCalls, data \in StartResponses :
          ResumeStartInterview(i, data)
    \/ \E text \in InterviewTexts : interviewType(text)
    \/ interviewHandleSubmit
    \/ \E i \in DOMAIN interviewCalls, data \in ContinueResponses :
          ResumeContinueInterview(i, data)
    \/ \E ok \in BOOLEAN : ResumeGenerateReport(ok)
    \/ resetInterview

SpecInterview == InitReply /\ [][NextInterview]_vars

\* C23: a report is requested exactly by the step in which a
\* continue-interview response reports is_complete, and for the session id
\* the answer was sent with; an answer is sent only while the interview is not
\* complete; a continueInterview whose request fails, or that finds no
\* session id, leaves the messages, the question count and the completion
\* flag unchanged.
C23_ReportExactlyOnCompletion ==
    [][/\ Len(reportCalls') > Len(reportCalls)
          => \E i \in DOMAIN interviewCalls, data \in ContinueResponses :
                /\ data.ok /\ data.is_complete
                /\ ResumeContinueInterview(i, data)
       /\ \A i \in DOMAIN interviewCalls, data \in ContinueResponses :
             ResumeContinueInterview(i, data)
             => IF data.ok /\ data.is_complete
                THEN reportCalls' = Append(reportCalls, interviewCalls[i].sessionId)
                ELSE reportCalls' = reportCalls
       /\ Len(interviewCalls') > Len(interviewCalls)
          => ~interviewState.isComplete
       /\ ((\E i \in DOMAIN interviewCalls : ResumeContinueInterview(i, [ok |-> FALSE]))
           \/ (interviewState.sessionId = NoSessionId /\ interviewHandleSubmit))
          => /\ interviewMessages' = interviewMessages
             /\ interviewState' = interviewState]_vars

\* C23 witness: the answer of session 1 was reported complete, its report has
\* been requested, and the answer form is gone
C23_Witness ==
    /\ interviewState.isComplete
    /\ interviewState.sessionId = 1
    /\ reportCalls = <<1>>
    /\ Len(interviewMessages) = 3
    /\ ~AnswerFormShown

\* While the interview is complete no continueInterview call is awaited
NoAnswerAwaitedWhenComplete ==
    interviewState.isComplete
    => \A i \in DOMAIN interviewCalls : interviewCalls[i].fn /= "continue"

\* At most one start or continue request is awaited
OneInterviewRequestAtATime == Len(interviewCalls) <= 1

-----------------------------------------------------------------------------
(* The chat turn with the requests to the backend settling eventually        *)

NextTurn ==
    \/ \E text \in InputTexts : Type(text)
    \/ handleSubmit
    \/ \E transcript \in InputTexts : handleVoiceTranscript(transcript)
    \/ TranscriptTimer
    \/ \E i \in DOMAIN awaiting, backend \in TurnBackends, rnd \in TurnRandoms :
          ResumeSendMessage(i, backend, rnd)
    \/ clearChat

\* The request of the call that has waited longest settles
OldestRequestSettles ==
    /\ awaiting /= <<>>
    /\ \E backend \in TurnBackends, rnd \in TurnRandoms :
          ResumeSendMessage(1, backend, rnd)

\* Every request to the backend settles, with a response or with an error:
\* the browser ends a fetch that gets no answer
SpecTurn == InitSilentChat /\ [][NextTurn]_vars /\ WF_vars(OldestRequestSettles)

\* C25: every chat turn terminates: while a reply is awaited isTyping is true
\* and a call is suspended; eventually isTyping is false again; and the step
\* that ends a turn, whether the backend call succeeded or failed, appends
\* exactly one therapist message and sets isTyping false, and no other step
\* appends a therapist message.
C25_EveryTurnTerminates ==
    /\ isTyping ~> ~isTyping
    /\ [][/\ Len(awaiting') > Len(awaiting)
             => /\ isTyping'
                /\ messages' = Append(messages, awaiting'[Len(awaiting')].userMessage)
          /\ Len(awaiting') < Len(awaiting)
             => /\ Len(awaiting') = Len(awaiting) - 1
                /\ Len(messages') = Len(messages) + 1
                /\ ~messages'[Len(messages')].isUser
                /\ ~isTyping'
          /\ (Len(messages') > Len(messages) /\ ~messages'[Len(messages')].isUser)
             => Len(awaiting') < Len(awaiting)]_vars

\* C25 witness: the backend call of a turn failed, and the turn has ended with
\* a fallback of the personality as its one therapist message
C25_Witness ==
    /\ ~isTyping
    /\ awaiting = <<>>
    /\ Len(messages) = 3
    /\ messages[2].isUser
    /\ ~messages[3].isUser
    /\ messages[3].text.value \in Range(chatFallbackResponses[settings.therapistPersonality])

\* While isTyping is true a call is awaited
TypingOnlyWhileAwaiting == isTyping => awaiting /= <<>>

====
